---- MODULE Spec2Model ----
(***************************************************************************)
(* Patch normalization and multi-strategy application engine of the Mat AI *)
(* Agent: normalizeDiff (normalize-diff.ts), applyPatchWithFallback        *)
(* (apply-patch-with-fallback.ts) and applyPatches (apply-patches.ts).     *)
(*                                                                         *)
(* Text representation.  A character is a one-character string, a line is  *)
(* a sequence of characters without "\n", and a JavaScript string s is     *)
(* represented by s.split('\n'): a NON-EMPTY sequence of lines (the empty  *)
(* string is << <<>> >>).  Array.join('\n') is modelled by Join, which     *)
(* maps the empty array to the empty string.                               *)
(***************************************************************************)
EXTENDS Integers, Sequences, FiniteSets, TLC

\* ------------------------------------------------------------------------
\* Characters and lines
\* ------------------------------------------------------------------------

DigitChars == <<"0", "1", "2", "3", "4", "5", "6", "7", "8", "9">>

\* \d of the hunk-header pattern
IsDigitChar(c) == \E i \in 1..10 : DigitChars[i] = c

\* \s of the hunk-header pattern, over the characters the model uses
IsSpaceChar(c) == c \in {" ", "\t"}

DigitVal(c) == (CHOOSE i \in 1..10 : DigitChars[i] = c) - 1

\* parseInt of a non-empty run of decimal digits
RECURSIVE ParseInt(_)
ParseInt(ds) ==
  IF ds = <<>> THEN 0
  ELSE 10 * ParseInt(SubSeq(ds, 1, Len(ds) - 1)) + DigitVal(ds[Len(ds)])

\* `${n}` of a non-negative integer
RECURSIVE NumToString(_)
NumToString(n) ==
  IF n < 10 THEN <<DigitChars[n + 1]>>
  ELSE NumToString(n \div 10) \o <<DigitChars[(n % 10) + 1]>>

\* String.prototype.startsWith
StartsWith(line, prefix) ==
  /\ Len(line) >= Len(prefix)
  /\ SubSeq(line, 1, Len(prefix)) = prefix

\* Array.prototype.join('\n'), in the split('\n') representation
Join(ls) == IF ls = <<>> THEN << <<>> >> ELSE ls

\* Array.prototype.filter: the elements of ls at the indexes in keep, in order
SelectLines(ls, keep) ==
  LET F[i \in 0..Len(ls)] ==
        IF i = 0 THEN <<>>
        ELSE IF i \in keep THEN Append(F[i - 1], ls[i]) ELSE F[i - 1]
  IN  F[Len(ls)]

IsFileHeader(line) ==
  StartsWith(line, <<"-", "-", "-">>) \/ StartsWith(line, <<"+", "+", "+">>)

IsHunkMarker(line) == StartsWith(line, <<"@", "@">>)

\* l.startsWith(' ') || l.startsWith('+') || l.startsWith('-')
HasContentPrefix(line) == Len(line) > 0 /\ line[1] \in {" ", "+", "-"}

\* ------------------------------------------------------------------------
\* detectIndentation
\* ------------------------------------------------------------------------

\* lines.slice(0, 100)
IndentSampleLines == 100

DefaultTabSize == 2

MinTabSize == 2

MaxTabSize == 8

\* length of the run of spaces at the start of a sequence of characters
RECURSIVE LeadingSpaces(_)
LeadingSpaces(cs) ==
  IF cs # <<>> /\ Head(cs) = " " THEN 1 + LeadingSpaces(Tail(cs)) ELSE 0

\* the reducer of detectIndentation: while (b) { t = b; b = a % b; a = t }
RECURSIVE Gcd(_, _)
Gcd(a, b) == IF b = 0 THEN a ELSE Gcd(b, a % b)

\* spaceMatches.map(m => m.length): content.match(/^ +/gm)
SpaceCounts(content) ==
  LET matched == {i \in DOMAIN content : LeadingSpaces(content[i]) > 0}
      nth(k)  == CHOOSE i \in matched : Cardinality({j \in matched : j <= i}) = k
  IN  [k \in 1..Cardinality(matched) |-> LeadingSpaces(content[nth(k)])]

\* Array.prototype.reduce without an initial value, on a non-empty array
RECURSIVE ReduceGcd(_)
ReduceGcd(ns) ==
  IF Len(ns) = 1 THEN ns[1]
  ELSE Gcd(ReduceGcd(SubSeq(ns, 1, Len(ns) - 1)), ns[Len(ns)])

\* faulty variant: tabs and spaces are counted over every line
DetectIndentationWholeFile(content) ==
  LET tabCount   == Cardinality({i \in DOMAIN content : StartsWith(content[i], <<"\t">>)})
      spaceCount == Cardinality({i \in DOMAIN content : LeadingSpaces(content[i]) >= 2})
      counts     == SpaceCounts(content)
      gcd        == IF counts = <<>> THEN 0 ELSE ReduceGcd(counts)
  IN  [useTabs |-> tabCount > spaceCount,
       tabSize |-> IF gcd >= MinTabSize /\ gcd <= MaxTabSize THEN gcd ELSE DefaultTabSize]

DetectIndentation(content) ==
  LET sample    == SubSeq(content, 1,
                          IF Len(content) < IndentSampleLines
                            THEN Len(content) ELSE IndentSampleLines)
      tabCount   == Cardinality({i \in DOMAIN sample : StartsWith(sample[i], <<"\t">>)})
      spaceCount == Cardinality({i \in DOMAIN sample : LeadingSpaces(sample[i]) >= 2})
      counts     == SpaceCounts(content)
      gcd        == IF counts = <<>> THEN 0 ELSE ReduceGcd(counts)
  IN  [useTabs |-> tabCount > spaceCount,
       tabSize |-> IF gcd >= MinTabSize /\ gcd <= MaxTabSize THEN gcd ELSE DefaultTabSize]

\* ------------------------------------------------------------------------
\* convertSpacesToTabs
\* ------------------------------------------------------------------------

\* '\t'.repeat(n), ' '.repeat(n)
Repeat(c, n) == [i \in 1..n |-> c]

\* faulty variant: no line is converted
ConvertLineUnchanged(line, tabSize) == line

\* faulty variant: the spaces left over after the tabs are dropped
ConvertLineDropsRemainder(line, tabSize) ==
  IF IsFileHeader(line) \/ IsHunkMarker(line) \/ ~HasContentPrefix(line) THEN line
  ELSE <<line[1]>>
       \o Repeat("\t", LeadingSpaces(Tail(line)) \div tabSize)
       \o SubSeq(Tail(line), LeadingSpaces(Tail(line)) + 1, Len(line) - 1)

ConvertLine(line, tabSize) ==
  IF IsFileHeader(line) \/ IsHunkMarker(line) THEN line
  ELSE IF HasContentPrefix(line)
    THEN LET content       == Tail(line)
             leadingSpaces == LeadingSpaces(content)
         IN  IF leadingSpaces >= tabSize
               THEN <<line[1]>>
                    \o Repeat("\t", leadingSpaces \div tabSize)
                    \o Repeat(" ", leadingSpaces % tabSize)
                    \o SubSeq(content, leadingSpaces + 1, Len(content))
               ELSE line
    ELSE line

ConvertSpacesToTabs(diff, tabSize) ==
  [i \in DOMAIN diff |-> ConvertLine(diff[i], tabSize)]

\* ------------------------------------------------------------------------
\* extractContentFromDiff
\* ------------------------------------------------------------------------

IsOldSide(line) ==
  /\ ~IsFileHeader(line) /\ ~IsHunkMarker(line)
  /\ Len(line) > 0 /\ line[1] \in {"-", " "}

IsNewSide(line) ==
  /\ ~IsFileHeader(line) /\ ~IsHunkMarker(line)
  /\ Len(line) > 0 /\ line[1] \in {"+", " "}

RECURSIVE Payloads(_)
Payloads(ls) == IF ls = <<>> THEN <<>> ELSE <<Tail(Head(ls))>> \o Payloads(Tail(ls))

ExtractContentFromDiff(diff) ==
  [oldContent |-> Join(Payloads(SelectLines(diff, {i \in DOMAIN diff : IsOldSide(diff[i])}))),
   newContent |-> Join(Payloads(SelectLines(diff, {i \in DOMAIN diff : IsNewSide(diff[i])})))]

\* ------------------------------------------------------------------------
\* isFullFileDiff
\* ------------------------------------------------------------------------

\* the largest power of two that is at most c (c >= 1)
RECURSIVE Pow2Floor(_)
Pow2Floor(c) == IF c < 2 THEN 1 ELSE 2 * Pow2Floor(c \div 2)

\* c > n * 0.7 in IEEE-754 doubles, for integers c, n >= 0.  The double 0.7 is
\* (7 * 2^53 - 4) / (10 * 2^53), so the exact product is 7n/10 - (4n/10) 2^-53;
\* it rounds to a double below c exactly when 10c > 7n, or 10c = 7n and the
\* deficit (4n/10) 2^-53 exceeds half the spacing 2^e 2^-52 of the doubles
\* just below c (2^e <= c < 2^(e+1)); a tie rounds to c itself.
ExceedsSeventyPercent(c, n) ==
  \/ 10 * c > 7 * n
  \/ 10 * c = 7 * n /\ c > 0 /\ 4 * n > 10 * Pow2Floor(c)

IsFullFileDiff(diff, originalContent) ==
  LET hunkCount         == Len(SelectLines(diff, {i \in DOMAIN diff : IsHunkMarker(diff[i])}))
      contentLines      == SelectLines(diff, {i \in DOMAIN diff : HasContentPrefix(diff[i])})
      originalLineCount == Len(originalContent)
  IN  /\ hunkCount = 1
      /\ ExceedsSeventyPercent(Len(contentLines), originalLineCount)

\* ------------------------------------------------------------------------
\* createTwoFilesPatch of the "diff" library, as normalizeDiff calls it
\* ('a/file', 'b/file', oldContent, newContent, '', '', { context: 3 }).
\* The library is not part of the repository; this is the shape of its output
\* for texts short enough to give one hunk: the lines the two texts share at
\* the start and at the end are context, what lies between is removed and
\* added.  Line tokens carry their line break, so a last line without one
\* differs from the same line with one.
\* ------------------------------------------------------------------------

ContextSize == 3

SeparatorLine == <<"=", "=", "=">>

OldFileHeader == <<"-", "-", "-", " ", "a", "\t">>

NewFileHeader == <<"+", "+", "+", " ", "b", "\t">>

NoNewlineMarker == <<"\\", " ", "N", "o">>

EndsWithNewline(text) == Len(text) > 1 /\ text[Len(text)] = <<>>

LineTokens(text) ==
  IF text = << <<>> >> THEN <<>>
  ELSE IF text[Len(text)] = <<>>
    THEN [i \in 1..(Len(text) - 1) |-> [line |-> text[i], nl |-> TRUE]]
    ELSE [i \in 1..Len(text) |-> [line |-> text[i], nl |-> i < Len(text)]]

RECURSIVE CommonPrefix(_, _)
CommonPrefix(a, b) ==
  IF a # <<>> /\ b # <<>> /\ Head(a) = Head(b)
    THEN 1 + CommonPrefix(Tail(a), Tail(b)) ELSE 0

RECURSIVE CommonSuffix(_, _)
CommonSuffix(a, b) ==
  IF a # <<>> /\ b # <<>> /\ a[Len(a)] = b[Len(b)]
    THEN 1 + CommonSuffix(SubSeq(a, 1, Len(a) - 1), SubSeq(b, 1, Len(b) - 1)) ELSE 0

Min(a, b) == IF a < b THEN a ELSE b

Prefixed(c, toks) == [i \in DOMAIN toks |-> <<c>> \o toks[i].line]

HunkHeader(oldStart, oldCount, newStart, newCount) ==
  <<"@", "@", " ", "-">> \o NumToString(oldStart) \o <<",">> \o NumToString(oldCount)
  \o <<" ", "+">> \o NumToString(newStart) \o <<",">> \o NumToString(newCount)
  \o <<" ", "@", "@">>

CreateTwoFilesPatch(oldContent, newContent) ==
  LET old     == LineTokens(oldContent)
      new     == LineTokens(newContent)
      p       == CommonPrefix(old, new)
      s       == CommonSuffix(SubSeq(old, p + 1, Len(old)), SubSeq(new, p + 1, Len(new)))
      removed == SubSeq(old, p + 1, Len(old) - s)
      added   == SubSeq(new, p + 1, Len(new) - s)
      before  == SubSeq(old, p - Min(p, ContextSize) + 1, p)
      after   == SubSeq(old, Len(old) - s + 1, Len(old) - s + Min(s, ContextSize))
      oldLines == Len(before) + Len(removed) + Len(after)
      newLines == Len(before) + Len(added) + Len(after)
      start    == p - Len(before) + 1
      eofInHunk      == s <= ContextSize
      noNlBeforeAdds == s = 0 /\ Len(added) > 0
      midMarker == IF /\ eofInHunk /\ ~EndsWithNewline(oldContent)
                      /\ noNlBeforeAdds /\ oldContent # << <<>> >>
                     THEN <<NoNewlineMarker>> ELSE <<>>
      endMarker == IF /\ eofInHunk
                      /\ \/ ~EndsWithNewline(oldContent) /\ ~noNlBeforeAdds
                         \/ ~EndsWithNewline(newContent)
                     THEN <<NoNewlineMarker>> ELSE <<>>
      hunk == IF removed = <<>> /\ added = <<>> THEN <<>>
              ELSE <<HunkHeader(IF oldLines = 0 THEN start - 1 ELSE start, oldLines,
                                IF newLines = 0 THEN start - 1 ELSE start, newLines)>>
                   \o Prefixed(" ", before) \o Prefixed("-", removed) \o midMarker
                   \o Prefixed("+", added) \o Prefixed(" ", after) \o endMarker
  IN  <<SeparatorLine, OldFileHeader, NewFileHeader>> \o hunk \o << <<>> >>

\* ------------------------------------------------------------------------
\* normalizeDiff
\* ------------------------------------------------------------------------

\* the position after the run of \s characters that starts at p
RECURSIVE SkipSpaces(_, _)
SkipSpaces(line, p) ==
  IF p <= Len(line) /\ IsSpaceChar(line[p]) THEN SkipSpaces(line, p + 1) ELSE p

\* the position after the run of \d characters that starts at p
RECURSIVE SkipDigits(_, _)
SkipDigits(line, p) ==
  IF p <= Len(line) /\ IsDigitChar(line[p]) THEN SkipDigits(line, p + 1) ELSE p

CharAt(line, p, c) == p <= Len(line) /\ line[p] = c

\* the position after an optional ",<digits>" at p
SkipCount(line, p) ==
  IF CharAt(line, p, ",") /\ SkipDigits(line, p + 1) > p + 1
    THEN SkipDigits(line, p + 1) ELSE p

NoMatch == [ok |-> FALSE, oldStart |-> 0, newStart |-> 0]

\* /@@\s+-(\d+)(?:,(\d+))?\s+\+(\d+)(?:,(\d+))?\s+@@/ tried at position p.  No
\* quantifier of the pattern can give back a character that what follows it
\* accepts, so the greedy match is the only one.
MatchAt(line, p) ==
  LET a == p + 2
      b == SkipSpaces(line, a)
      c == b + 1
      d == SkipDigits(line, c)
      e == SkipCount(line, d)
      f == SkipSpaces(line, e)
      g == f + 1
      h == SkipDigits(line, g)
      i == SkipCount(line, h)
      j == SkipSpaces(line, i)
  IN  IF /\ CharAt(line, p, "@") /\ CharAt(line, p + 1, "@")
         /\ b > a /\ CharAt(line, b, "-") /\ d > c
         /\ f > e /\ CharAt(line, f, "+") /\ h > g
         /\ j > i /\ CharAt(line, j, "@") /\ CharAt(line, j + 1, "@")
        THEN [ok |-> TRUE,
              oldStart |-> ParseInt(SubSeq(line, c, d - 1)),
              newStart |-> ParseInt(SubSeq(line, g, h - 1))]
        ELSE NoMatch

\* faulty variant: every '@@' line is taken as a hunk header
HunkHeaderMatchLoose(line) == [ok |-> TRUE, oldStart |-> 0, newStart |-> 0]

\* line.match(...): the leftmost position at which the pattern matches
HunkHeaderMatch(line) ==
  LET hits == {p \in 1..Len(line) : MatchAt(line, p).ok}
  IN  IF hits = {} THEN NoMatch
      ELSE MatchAt(line, CHOOSE p \in hits : \A q \in hits : p <= q)

\* the inner while loop: the index at which the collection of hunk lines
\* that starts at i stops
RECURSIVE HunkEnd(_, _)
HunkEnd(lines, i) ==
  IF i <= Len(lines) /\ ~IsHunkMarker(lines[i])
     /\ (HasContentPrefix(lines[i]) \/ lines[i] = <<>>)
    THEN HunkEnd(lines, i + 1) ELSE i

\* faulty variant: the zero-length lines of the hunk are not collected
HunkLinesWithoutBlanks(lines, i, j) ==
  SelectLines(SubSeq(lines, i + 1, j - 1),
              {k \in 1..(j - i - 1) : lines[i + k] # <<>>})

\* hunkLines of the hunk whose header is at index i and that stops at j
HunkLines(lines, i, j) ==
  [k \in 1..(j - i - 1) |-> IF lines[i + k] = <<>> THEN <<" ">> ELSE lines[i + k]]

\* faulty variant: the recount starts at the second collected line
CountPrefixSkippingFirst(hunkLines, cs) ==
  Cardinality({k \in DOMAIN hunkLines : k > 1 /\ hunkLines[k][1] \in cs})

CountPrefix(hunkLines, cs) ==
  Cardinality({k \in DOMAIN hunkLines : hunkLines[k][1] \in cs})

\* the outer while loop, from index i with result accumulated so far
RECURSIVE CorrectHeaders(_, _, _)
CorrectHeaders(lines, i, result) ==
  IF i > Len(lines) THEN result
  ELSE LET line == lines[i] IN
    IF IsFileHeader(line) THEN CorrectHeaders(lines, i + 1, Append(result, line))
    ELSE IF IsHunkMarker(line)
      THEN LET m == HunkHeaderMatch(line) IN
           IF ~m.ok THEN CorrectHeaders(lines, i + 1, Append(result, line))
           ELSE LET j         == HunkEnd(lines, i + 1)
                    hunkLines == HunkLines(lines, i, j)
                    oldCount  == CountPrefix(hunkLines, {" ", "-"})
                    newCount  == CountPrefix(hunkLines, {" ", "+"})
                IN  CorrectHeaders(lines, j,
                      result \o <<HunkHeader(m.oldStart, oldCount, m.newStart, newCount)>>
                             \o hunkLines)
      ELSE CorrectHeaders(lines, i + 1, Append(result, line))

\* faulty variant: the regenerated hunks keep the header of the input diff
RegenerateKeepingHeader(diff) ==
  LET ex         == ExtractContentFromDiff(diff)
      properDiff == CreateTwoFilesPatch(ex.oldContent, ex.newContent)
      kept       == SelectLines(properDiff,
                                {i \in DOMAIN properDiff : ~IsFileHeader(properDiff[i])})
      headers    == {i \in DOMAIN diff : IsHunkMarker(diff[i])}
      first      == diff[CHOOSE i \in headers : \A k \in headers : i <= k]
  IN  [i \in DOMAIN kept |-> IF IsHunkMarker(kept[i]) THEN first ELSE kept[i]]

Regenerate(diff) ==
  LET ex         == ExtractContentFromDiff(diff)
      properDiff == CreateTwoFilesPatch(ex.oldContent, ex.newContent)
  IN  Join(SelectLines(properDiff,
                       {i \in DOMAIN properDiff : ~IsFileHeader(properDiff[i])}))

NormalizeDiff(diff, originalContent) ==
  LET diff1    == IF IsFullFileDiff(diff, originalContent) THEN Regenerate(diff) ELSE diff
      indent   == DetectIndentation(originalContent)
      fixedDiff == IF indent.useTabs THEN ConvertSpacesToTabs(diff1, indent.tabSize) ELSE diff1
  IN  Join(CorrectHeaders(fixedDiff, 1, <<>>))

\* ------------------------------------------------------------------------
\* State
\* ------------------------------------------------------------------------

VARIABLES
  pc,               \* the statement the program is at
  originalContent,  \* parameter of normalizeDiff / applyPatchWithFallback
  diff,             \* parameter of normalizeDiff / applyPatchWithFallback
  filePath,         \* parameter of applyPatchWithFallback, <<>> when falsy
  fixedDiff,        \* normalizeDiff's result
  fullFile,         \* isFullFileDiff's result
  tmp,              \* strategy 3's temp directory and its two files
  result,           \* strategy 3's local: the text read back from the temp copy
  patchResult,      \* what applyPatchWithFallback returns
  attempts,         \* history: the strategies this call has begun, with outcome
  subprocess,       \* history: this call has started the patch command
  fs,               \* the repository's files: path -> text, or NoText
  mods,             \* output.modifications
  idx,              \* position of the for loop of applyPatches
  results,          \* results of applyPatches
  trail,            \* history: per result, what the runner saw and did
  calls,            \* history: number of applyPatchWithFallback calls
  extracted,        \* extractContentFromDiff's result
  peer,             \* another process inside strategy 3 of applyPatchWithFallback
  indentation,      \* detectIndentation's result
  twin              \* a second call of normalizeDiff: its diff and its result

vars == <<pc, originalContent, diff, filePath, fixedDiff, fullFile, tmp, result,
          patchResult, attempts, subprocess, fs, mods, idx, results, trail, calls,
          extracted, peer, indentation, twin>>

otherVars == <<extracted, peer, indentation, twin>>

normVars == <<originalContent, diff, fixedDiff, fullFile>>

applyVars == <<filePath, tmp, result, patchResult, attempts, subprocess>>

batchVars == <<fs, mods, idx, results, trail, calls>>

\* an absent file, an undefined content, a falsy filePath
NoText == <<>>

EmptyText == << <<>> >>

Undefined == "undefined"

NoExtract == [oldContent |-> NoText, newContent |-> NoText]

NoIndentation == [useTabs |-> FALSE, tabSize |-> 0]

NoTwin == [diff |-> NoText, fixedDiff |-> NoText, fullFile |-> FALSE]

\* ------------------------------------------------------------------------
\* applyPatchWithFallback
\* ------------------------------------------------------------------------

TextA == << <<"a">> >>

TextB == << <<"b">> >>

\* the texts a patched file can have: the "diff" library and the patch
\* command are outside the repository, and what they make of a diff is a
\* choice among these (the empty text is what removing every line gives)
FileTexts == {EmptyText, TextA, TextB}

\* applyPatch of the "diff" library: the patched text, false, or an exception
ApplyPatchOutcomes ==
  {[kind |-> "content", content |-> t] : t \in FileTexts}
  \cup {[kind |-> "false", content |-> NoText], [kind |-> "throw", content |-> NoText]}

\* What is known of applyPatch without its code: a diff that is one hunk in
\* canonical form (header counts equal to its lines, only content lines, at
\* least one old-side line), whose old side is the text at the declared
\* lines, is a valid patch of that text and gives the text with those lines
\* replaced by the new side.  NoText when the diff is not of that kind.
ExactApply(content, d) ==
  IF Len(d) < 2 \/ ~HunkHeaderMatch(d[1]).ok THEN NoText
  ELSE
    LET body     == SubSeq(d, 2, Len(d))
        m        == HunkHeaderMatch(d[1])
        oldSide  == Payloads(SelectLines(body, {i \in DOMAIN body : IsOldSide(body[i])}))
        newSide  == Payloads(SelectLines(body, {i \in DOMAIN body : IsNewSide(body[i])}))
        last     == m.oldStart + Len(oldSide) - 1
        patched  == SubSeq(content, 1, m.oldStart - 1) \o newSide
                    \o SubSeq(content, last + 1, Len(content))
    IN  IF /\ \A i \in DOMAIN body : IsOldSide(body[i]) \/ IsNewSide(body[i])
           /\ d[1] = HunkHeader(m.oldStart, Len(oldSide), m.newStart, Len(newSide))
           /\ Len(oldSide) >= 1 /\ m.oldStart >= 1 /\ last <= Len(content)
           /\ SubSeq(content, m.oldStart, last) = oldSide
           /\ patched # <<>>
          THEN patched ELSE NoText

\* The lines of d from its first '@@' line on, when the lines before it are
\* neither content lines nor file headers: the parser of the library skips
\* such lines before a hunk (the "=====" line that createTwoFilesPatch emits).
WithoutPreamble(d) ==
  LET markers == {i \in DOMAIN d : IsHunkMarker(d[i])}
      first   == CHOOSE i \in markers : \A k \in markers : i <= k
  IN  IF markers # {} /\ \A k \in 1..(first - 1) : d[k] # <<>> /\ ~HasContentPrefix(d[k])
        THEN SubSeq(d, first, Len(d)) ELSE d

\* What is known of applyPatch without its code, second part: a diff that is
\* one hunk in canonical form whose old side occurs at no position of the
\* text is rejected (applyPatch returns false: its default fuzz factor is 0).
NowhereApplicable(content, d) ==
  /\ Len(d) >= 2 /\ HunkHeaderMatch(d[1]).ok
  /\ LET body    == SubSeq(d, 2, Len(d))
         m       == HunkHeaderMatch(d[1])
         oldSide == Payloads(SelectLines(body, {i \in DOMAIN body : IsOldSide(body[i])}))
         newSide == Payloads(SelectLines(body, {i \in DOMAIN body : IsNewSide(body[i])}))
     IN  /\ \A i \in DOMAIN body : IsOldSide(body[i]) \/ IsNewSide(body[i])
         /\ d[1] = HunkHeader(m.oldStart, Len(oldSide), m.newStart, Len(newSide))
         /\ Len(oldSide) >= 1
         /\ \A s \in 1..(Len(content) - Len(oldSide) + 1) :
              SubSeq(content, s, s + Len(oldSide) - 1) # oldSide

\* applyPatch(content, d): the stated result for a diff of those kinds, any
\* outcome otherwise
ApplyPatch(content, d) ==
  IF ExactApply(content, WithoutPreamble(d)) # NoText
    THEN {[kind |-> "content", content |-> ExactApply(content, WithoutPreamble(d))]}
  ELSE IF NowhereApplicable(content, WithoutPreamble(d))
    THEN {[kind |-> "false", content |-> NoText]}
    ELSE ApplyPatchOutcomes

RejectedMessage == "Patch rejected - unable to apply with any strategy"

Success(content) == [success |-> TRUE, content |-> content, error |-> Undefined]

Rejected == [success |-> FALSE, content |-> NoText, error |-> RejectedMessage]

NoResult == [success |-> FALSE, content |-> NoText, error |-> Undefined]

NoTmp == [exists |-> FALSE, file |-> NoText, patch |-> NoText]

\* history of the attempts: the strategy, how it ended, the text it produced,
\* and the step at which it threw ("none" when it threw nowhere)
Begin(k) ==
  Append(attempts, [strategy |-> k, outcome |-> "running", content |-> NoText,
                    threw |-> "none"])

End(as, outcome, content) ==
  [as EXCEPT ![Len(as)].outcome = outcome, ![Len(as)].content = content]

\* an exception was raised at `step` of the running strategy
Raised(as, step) ==
  [as EXCEPT ![Len(as)].threw = IF @ = "none" THEN step ELSE @]

\* a catch clause of applyPatchWithFallback ends the running strategy
Caught(as, step) == End(Raised(as, step), "failed", NoText)

\* faulty variant: strategy 1 succeeds but does not return
Strategy1FallsThrough ==
  /\ pc = "s1"
  /\ \E r \in ApplyPatch(originalContent, diff) :
       /\ attempts' = End(Begin(1), IF r.kind = "content" THEN "ok" ELSE "failed", r.content)
       /\ patchResult' = IF r.kind = "content" THEN Success(r.content) ELSE patchResult
       /\ pc' = "s2"
  /\ UNCHANGED <<otherVars, normVars, filePath, tmp, result, subprocess, batchVars>>

\* lines 44-53: strategy 1, applyPatch(originalContent, diff)
Strategy1 ==
  /\ pc = "s1"
  /\ \E r \in ApplyPatch(originalContent, diff) :
       IF r.kind = "content"
         THEN /\ patchResult' = Success(r.content)
              /\ attempts' = End(Begin(1), "ok", r.content)
              /\ pc' = "ret"
         ELSE /\ attempts' = IF r.kind = "throw" THEN Caught(Begin(1), "s1")
                                                  ELSE End(Begin(1), "failed", NoText)
              /\ pc' = "s2"
              /\ UNCHANGED patchResult
  /\ UNCHANGED <<otherVars, normVars, filePath, tmp, result, subprocess, batchVars>>

\* lines 55-66: strategy 2, applyPatch(originalContent, normalizeDiff(...))
Strategy2 ==
  /\ pc = "s2"
  /\ fixedDiff' = NormalizeDiff(diff, originalContent)
  /\ \E r \in ApplyPatch(originalContent, fixedDiff') :
       IF r.kind = "content"
         THEN /\ patchResult' = Success(r.content)
              /\ attempts' = End(Begin(2), "ok", r.content)
              /\ pc' = "ret"
         ELSE /\ attempts' = IF r.kind = "throw" THEN Caught(Begin(2), "s2")
                                                  ELSE End(Begin(2), "failed", NoText)
              /\ pc' = "s3"
              /\ UNCHANGED patchResult
  /\ UNCHANGED <<otherVars, originalContent, diff, fullFile, filePath, tmp, result, subprocess, batchVars>>

\* line 68 with a falsy filePath, then lines 103-106
NoFilePath ==
  /\ pc = "s3"
  /\ filePath = NoText
  /\ patchResult' = Rejected
  /\ pc' = "ret"
  /\ UNCHANGED <<otherVars, normVars, filePath, tmp, result, attempts, subprocess, batchVars>>

\* faulty variant: the rejection carries no error message
Strategy3FailedSilently ==
  /\ attempts' = Caught(attempts, pc)
  /\ patchResult' = NoResult
  /\ pc' = "ret"

\* the outer catch of strategy 3 (lines 98-100), then lines 103-106
Strategy3Failed ==
  /\ attempts' = Caught(attempts, pc)
  /\ patchResult' = Rejected
  /\ pc' = "ret"

\* faulty variant: strategy 3 does not look at filePath
MakeTmpDirUnguarded ==
  /\ pc = "s3"
  /\ tmp' = [NoTmp EXCEPT !.exists = TRUE]
  /\ attempts' = Begin(3)
  /\ pc' = "s3_file"
  /\ UNCHANGED <<otherVars, normVars, filePath, result, patchResult, subprocess, batchVars>>

\* lines 68-73: fs.mkdirSync(tmpDir)
MakeTmpDir ==
  /\ pc = "s3"
  /\ filePath # NoText
  /\ \/ /\ tmp' = [NoTmp EXCEPT !.exists = TRUE]
        /\ attempts' = Begin(3)
        /\ pc' = "s3_file"
        /\ UNCHANGED patchResult
     \/ /\ attempts' = Caught(Begin(3), "s3")
        /\ patchResult' = Rejected
        /\ pc' = "ret"
        /\ UNCHANGED tmp
  /\ UNCHANGED <<otherVars, normVars, filePath, result, subprocess, batchVars>>

\* line 78: fs.writeFileSync(tmpFile, originalContent)
WriteTmpFile ==
  /\ pc = "s3_file"
  /\ \/ /\ tmp.exists
        /\ tmp' = [tmp EXCEPT !.file = originalContent]
        /\ pc' = "s3_diff"
        /\ UNCHANGED <<attempts, patchResult>>
     \/ /\ Strategy3Failed
        /\ UNCHANGED tmp
  /\ UNCHANGED <<otherVars, normVars, filePath, result, subprocess, batchVars>>

\* lines 79-80: normalizeDiff, fs.writeFileSync(tmpDiff, fixedDiff)
WriteTmpDiff ==
  /\ pc = "s3_diff"
  /\ fixedDiff' = NormalizeDiff(diff, originalContent)
  /\ \/ /\ tmp.exists
        /\ tmp' = [tmp EXCEPT !.patch = fixedDiff']
        /\ pc' = "s3_exec"
        /\ UNCHANGED <<attempts, patchResult>>
     \/ /\ Strategy3Failed
        /\ UNCHANGED tmp
  /\ UNCHANGED <<otherVars, originalContent, diff, fullFile, filePath, result, subprocess, batchVars>>

\* lines 83-86: execSync of the patch command on the temp copy
RunPatchCommand ==
  /\ pc = "s3_exec"
  /\ subprocess' = TRUE
  /\ \/ /\ tmp.exists /\ tmp.file # NoText /\ tmp.patch # NoText
        /\ \E t \in FileTexts : tmp' = [tmp EXCEPT !.file = t]
        /\ pc' = "s3_read"
        /\ UNCHANGED attempts
     \/ /\ pc' = "s3_catch"
        /\ attempts' = Raised(attempts, pc)
        /\ UNCHANGED tmp
  /\ UNCHANGED <<otherVars, normVars, filePath, result, patchResult, batchVars>>

\* line 88: fs.readFileSync(tmpFile)
ReadTmpFile ==
  /\ pc = "s3_read"
  /\ \/ /\ tmp.file # NoText
        /\ result' = tmp.file
        /\ pc' = "s3_rm"
        /\ UNCHANGED attempts
     \/ /\ pc' = "s3_catch"
        /\ attempts' = Raised(attempts, pc)
        /\ UNCHANGED result
  /\ UNCHANGED <<otherVars, normVars, filePath, tmp, patchResult, subprocess, batchVars>>

\* lines 91-93: fs.rmSync(tmpDir), return success
RemoveTmpDir ==
  /\ pc = "s3_rm"
  /\ \/ /\ tmp.exists
        /\ tmp' = NoTmp
        /\ patchResult' = Success(result)
        /\ attempts' = End(attempts, "ok", result)
        /\ pc' = "ret"
     \/ /\ pc' = "s3_catch"
        /\ attempts' = Raised(attempts, pc)
        /\ UNCHANGED <<tmp, patchResult>>
  /\ UNCHANGED <<otherVars, normVars, filePath, result, subprocess, batchVars>>

\* faulty variant: the rethrown exception leaves applyPatchWithFallback
CleanupAfterFailureEscapes ==
  /\ pc = "s3_catch"
  /\ \/ tmp' = NoTmp
     \/ UNCHANGED tmp
  /\ pc' = "thrown"
  /\ UNCHANGED <<otherVars, normVars, filePath, result, patchResult, attempts, subprocess, batchVars>>

\* lines 94-97: the inner catch: fs.rmSync(tmpDir), rethrow
CleanupAfterFailure ==
  /\ pc = "s3_catch"
  /\ \/ tmp' = NoTmp
     \/ UNCHANGED tmp
  /\ Strategy3Failed
  /\ UNCHANGED <<otherVars, normVars, filePath, result, subprocess, batchVars>>

\* the steps of a call that was given a filePath
ApplyWithPath ==
  \/ Strategy1
  \/ Strategy2
  \/ MakeTmpDir
  \/ WriteTmpFile
  \/ WriteTmpDiff
  \/ RunPatchCommand
  \/ ReadTmpFile
  \/ RemoveTmpDir
  \/ CleanupAfterFailure

ApplyNext == ApplyWithPath \/ NoFilePath

\* ------------------------------------------------------------------------
\* applyPatches
\* ------------------------------------------------------------------------

\* path.resolve(env.frontendRepoPath)
RepoRoot == <<"/", "r">>

BackupSuffix == <<".", "b", "a", "c", "k", "u", "p">>

\* p.replace(/\\/g, "/")
NormalizePath(p) == [i \in DOMAIN p |-> IF p[i] = "\\" THEN "/" ELSE p[i]]

\* path.join(repoRoot, rel), for relative paths without "." or ".." segments
AbsPath(rel) == RepoRoot \o <<"/">> \o rel

\* abs + ".backup"
BackupPath(abs) == abs \o BackupSuffix

MissingFileMessage == "File does not exist on disk."

FallbackMessage == "Patch application failed"

\* the path of the modification the loop is at
CurrentRel == NormalizePath(mods[idx].path)

CurrentAbs == AbsPath(CurrentRel)

\* fs.existsSync
Exists(path) == fs[path] # NoText

\* !patchResult.success || !patchResult.content: an undefined content and the
\* empty string are both falsy
PatchFailed(pr) == ~pr.success \/ pr.content = NoText \/ pr.content = EmptyText

\* faulty variant: the applicator's message is dropped
FailureErrorGeneric(pr) == FallbackMessage

\* patchResult.error || "Patch application failed"
FailureError(pr) == IF pr.error # Undefined THEN pr.error ELSE FallbackMessage

Record(r, t) ==
  /\ results' = Append(results, r)
  /\ trail' = Append(trail, t)
  /\ idx' = idx + 1
  /\ pc' = "loop"

\* line 130 when the list is exhausted, line 174
ReturnResults ==
  /\ pc = "loop"
  /\ idx > Len(mods)
  /\ pc' = "returned"
  /\ UNCHANGED <<otherVars, normVars, applyVars, batchVars>>

\* faulty variant: a missing file ends the loop
MissingFileAborts ==
  /\ pc = "loop"
  /\ idx <= Len(mods)
  /\ ~Exists(CurrentAbs)
  /\ results' = Append(results, [file |-> CurrentRel, success |-> FALSE,
                                  error |-> MissingFileMessage])
  /\ trail' = Append(trail, [abs |-> CurrentAbs, existed |-> FALSE, original |-> NoText,
                              patch |-> NoResult, unlinked |-> FALSE])
  /\ idx' = Len(mods) + 1
  /\ pc' = "loop"
  /\ UNCHANGED <<otherVars, normVars, applyVars, fs, mods, calls>>

\* faulty variant: a missing target is created empty
MissingFileCreates ==
  /\ pc = "loop"
  /\ idx <= Len(mods)
  /\ ~Exists(CurrentAbs)
  /\ fs' = [fs EXCEPT ![CurrentAbs] = EmptyText]
  /\ Record([file |-> CurrentRel, success |-> FALSE, error |-> MissingFileMessage],
            [abs |-> CurrentAbs, existed |-> FALSE, original |-> NoText,
             patch |-> NoResult, unlinked |-> FALSE])
  /\ UNCHANGED <<otherVars, normVars, applyVars, mods, calls>>

\* lines 131-141: the target does not exist
MissingFile ==
  /\ pc = "loop"
  /\ idx <= Len(mods)
  /\ ~Exists(CurrentAbs)
  /\ Record([file |-> CurrentRel, success |-> FALSE, error |-> MissingFileMessage],
            [abs |-> CurrentAbs, existed |-> FALSE, original |-> NoText,
             patch |-> NoResult, unlinked |-> FALSE])
  /\ UNCHANGED <<otherVars, normVars, applyVars, fs, mods, calls>>

\* lines 131-134: the target exists
FileExists ==
  /\ pc = "loop"
  /\ idx <= Len(mods)
  /\ Exists(CurrentAbs)
  /\ pc' = "read"
  /\ UNCHANGED <<otherVars, normVars, applyVars, batchVars>>

\* faulty variant: a path named before is patched from the content that the
\* first attempt on it read
ReadOriginalOfFirstAttempt ==
  /\ pc = "read"
  /\ LET before == {i \in DOMAIN trail : trail[i].abs = CurrentAbs /\ trail[i].existed}
     IN  originalContent' =
           IF before = {} THEN fs[CurrentAbs]
           ELSE trail[CHOOSE i \in before : \A k \in before : i <= k].original
  /\ pc' = "backup"
  /\ UNCHANGED <<otherVars, diff, fixedDiff, fullFile, applyVars, batchVars>>

\* line 143: fs.readFileSync(abs); an exception leaves applyPatches
ReadOriginal ==
  /\ pc = "read"
  /\ \/ /\ originalContent' = fs[CurrentAbs]
        /\ pc' = "backup"
     \/ /\ pc' = "thrown"
        /\ UNCHANGED originalContent
  /\ UNCHANGED <<otherVars, diff, fixedDiff, fullFile, applyVars, batchVars>>

\* faulty variant: the patch is attempted without writing the backup
WriteBackupSkipped ==
  /\ pc = "backup"
  /\ diff' = mods[idx].diff
  /\ filePath' = CurrentAbs
  /\ tmp' = NoTmp
  /\ result' = NoText
  /\ patchResult' = NoResult
  /\ attempts' = <<>>
  /\ subprocess' = FALSE
  /\ calls' = calls + 1
  /\ pc' = "s1"
  /\ UNCHANGED <<otherVars, originalContent, fixedDiff, fullFile, fs, mods, idx, results, trail>>

\* lines 145-148: fs.writeFileSync(backupPath, original), then the call of
\* applyPatchWithFallback(original, mod.diff, abs)
WriteBackup ==
  /\ pc = "backup"
  /\ \/ /\ fs' = [fs EXCEPT ![BackupPath(CurrentAbs)] = originalContent]
        /\ diff' = mods[idx].diff
        /\ filePath' = CurrentAbs
        /\ tmp' = NoTmp
        /\ result' = NoText
        /\ patchResult' = NoResult
        /\ attempts' = <<>>
        /\ subprocess' = FALSE
        /\ calls' = calls + 1
        /\ pc' = "s1"
     \/ /\ pc' = "thrown"
        /\ UNCHANGED <<diff, applyVars, fs, calls>>
  /\ UNCHANGED <<otherVars, originalContent, fixedDiff, fullFile, mods, idx, results, trail>>

\* faulty variant: the backup is deleted when the patch was rejected
RecordFailureDropsBackup ==
  /\ pc = "ret"
  /\ PatchFailed(patchResult)
  /\ fs' = [fs EXCEPT ![BackupPath(CurrentAbs)] = NoText]
  /\ Record([file |-> CurrentRel, success |-> FALSE, error |-> FailureError(patchResult)],
            [abs |-> CurrentAbs, existed |-> TRUE, original |-> originalContent,
             patch |-> patchResult, unlinked |-> FALSE])
  /\ UNCHANGED <<otherVars, normVars, applyVars, mods, calls>>

\* faulty variant: a rejected patch ends the loop
RecordFailureAborts ==
  /\ pc = "ret"
  /\ PatchFailed(patchResult)
  /\ results' = Append(results, [file |-> CurrentRel, success |-> FALSE,
                                  error |-> FailureError(patchResult)])
  /\ trail' = Append(trail, [abs |-> CurrentAbs, existed |-> TRUE,
                              original |-> originalContent, patch |-> patchResult,
                              unlinked |-> FALSE])
  /\ idx' = Len(mods) + 1
  /\ pc' = "loop"
  /\ UNCHANGED <<otherVars, normVars, applyVars, fs, mods, calls>>

\* lines 150-158: the patch was rejected
RecordFailure ==
  /\ pc = "ret"
  /\ PatchFailed(patchResult)
  /\ Record([file |-> CurrentRel, success |-> FALSE, error |-> FailureError(patchResult)],
            [abs |-> CurrentAbs, existed |-> TRUE, original |-> originalContent,
             patch |-> patchResult, unlinked |-> FALSE])
  /\ UNCHANGED <<otherVars, normVars, applyVars, fs, mods, calls>>

\* lines 150, 160: fs.writeFileSync(abs, patchResult.content)
WriteTarget ==
  /\ pc = "ret"
  /\ ~PatchFailed(patchResult)
  /\ \/ /\ fs' = [fs EXCEPT ![CurrentAbs] = patchResult.content]
        /\ pc' = "unlink"
     \/ /\ pc' = "thrown"
        /\ UNCHANGED fs
  /\ UNCHANGED <<otherVars, normVars, applyVars, mods, idx, results, trail, calls>>

\* faulty variant: the file itself is unlinked instead of its backup
RemoveBackupWrongPath ==
  /\ pc = "unlink"
  /\ \E unlinked \in BOOLEAN :
       /\ fs' = IF unlinked THEN [fs EXCEPT ![CurrentAbs] = NoText] ELSE fs
       /\ Record([file |-> CurrentRel, success |-> TRUE, error |-> Undefined],
                 [abs |-> CurrentAbs, existed |-> TRUE, original |-> originalContent,
                  patch |-> patchResult, unlinked |-> unlinked])
  /\ UNCHANGED <<otherVars, normVars, applyVars, mods, calls>>

\* lines 162-171: fs.unlinkSync(backupPath), which may fail and is then only
\* logged; the success is recorded either way
RemoveBackup ==
  /\ pc = "unlink"
  /\ \E unlinked \in BOOLEAN :
       /\ fs' = IF unlinked THEN [fs EXCEPT ![BackupPath(CurrentAbs)] = NoText] ELSE fs
       /\ Record([file |-> CurrentRel, success |-> TRUE, error |-> Undefined],
                 [abs |-> CurrentAbs, existed |-> TRUE, original |-> originalContent,
                  patch |-> patchResult, unlinked |-> unlinked])
  /\ UNCHANGED <<otherVars, normVars, applyVars, mods, calls>>

BatchNext ==
  \/ ReturnResults
  \/ MissingFile
  \/ FileExists
  \/ ReadOriginal
  \/ WriteBackup
  \/ RecordFailure
  \/ WriteTarget
  \/ RemoveBackup

\* ------------------------------------------------------------------------
\* Inputs
\* ------------------------------------------------------------------------

\* the sequences over S of length 1 .. n
SeqsUpTo(S, n) == UNION {[1..k -> S] : k \in 1..n}

MaxMods == 2

MaxDiffLines == 4

HeaderWrongCounts == <<"@", "@", " ", "-", "1", ",", "9", " ", "+", "1", ",", "9", " ", "@", "@">>

HeaderNoCounts == <<"@", "@", "\t", "-", "1", "2", " ", " ", "+", "0", "3", " ", "@", "@", " ", "f">>

HeaderMalformed == <<"@", "@", " ", "x">>

\* the lines the diffs of the normalizer's checks are made of
DiffLinePool ==
  { HeaderWrongCounts, HeaderNoCounts, HeaderMalformed,
    <<" ", "a">>, <<"+", " ", " ", "b">>, <<"-", "a">>, <<>>,
    NoNewlineMarker, <<"-", "-", "-", " ", "a">> }

DiffInputs == SeqsUpTo(DiffLinePool, MaxDiffLines)

OneLineOriginal == << <<"a">> >>

PlainOriginal == [i \in 1..8 |-> <<"a">>]

TabbedOriginal == [i \in 1..8 |-> IF i % 2 = 0 THEN <<"\t", "a">> ELSE <<"a">>]

OriginalInputs == {OneLineOriginal, PlainOriginal, TabbedOriginal}

DiffWrongCounts == <<HeaderWrongCounts, <<"-", "a">>, <<"+", "b">> >>

DiffGarbage == << <<"x">> >>

\* the diffs applyPatchWithFallback is called with directly
ModDiffs == {DiffWrongCounts, DiffGarbage}

ModPaths == { <<"a">>, <<"d", "\\", "b">>, <<"a">> \o BackupSuffix }

Modifications == [path : ModPaths, diff : {DiffWrongCounts}]

FsPaths ==
  LET targets == {AbsPath(NormalizePath(p)) : p \in ModPaths}
  IN  targets \cup {BackupPath(t) : t \in targets}

\* ------------------------------------------------------------------------
\* Specifications
\* ------------------------------------------------------------------------

IdleNorm ==
  /\ originalContent = NoText /\ diff = NoText
  /\ fixedDiff = NoText /\ fullFile = FALSE

IdleApply ==
  /\ filePath = NoText /\ tmp = NoTmp /\ result = NoText
  /\ patchResult = NoResult /\ attempts = <<>> /\ subprocess = FALSE

IdleBatch ==
  /\ fs = [p \in FsPaths |-> NoText] /\ mods = <<>> /\ idx = 1
  /\ results = <<>> /\ trail = <<>> /\ calls = 0

\* the other process has not reached strategy 3
IdlePeer == [pc |-> "idle", sameTick |-> FALSE, dir |-> NoTmp]

IdleOther ==
  /\ extracted = NoExtract /\ peer = IdlePeer
  /\ indentation = NoIndentation /\ twin = NoTwin

\* applyPatches(output) on a repository whose files exist or not; no backup
\* of a backup lies around before the call
Init ==
  /\ pc = "loop"
  /\ IdleNorm
  /\ IdleApply
  /\ fs \in [FsPaths -> {NoText, TextA}]
  /\ \A p \in FsPaths : BackupPath(BackupPath(p)) \in FsPaths =>
                          fs[BackupPath(BackupPath(p))] = NoText
  /\ mods \in {<<>>} \cup SeqsUpTo(Modifications, MaxMods)
  /\ idx = 1 /\ results = <<>> /\ trail = <<>> /\ calls = 0
  /\ IdleOther

\* applyPatches always passes the absolute path, which is never falsy
Next == BatchNext \/ ApplyWithPath

Spec == Init /\ [][Next]_vars

\* applyPatchWithFallback(originalContent, diff, filePath?) called directly
InitApply ==
  /\ pc = "s1"
  /\ originalContent \in FileTexts
  /\ diff \in ModDiffs
  /\ fixedDiff = NoText /\ fullFile = FALSE
  /\ filePath \in {NoText, AbsPath(<<"a">>)}
  /\ tmp = NoTmp /\ result = NoText /\ patchResult = NoResult
  /\ attempts = <<>> /\ subprocess = FALSE
  /\ IdleBatch
  /\ IdleOther

SpecApply == InitApply /\ [][ApplyNext]_vars

\* normalizeDiff(diff, originalContent)
CallNormalizeDiff ==
  /\ pc = "norm"
  /\ fullFile' = IsFullFileDiff(diff, originalContent)
  /\ indentation' = DetectIndentation(originalContent)
  /\ fixedDiff' = NormalizeDiff(diff, originalContent)
  /\ pc' = "norm_done"
  /\ UNCHANGED <<extracted, peer, twin, originalContent, diff, applyVars, batchVars>>

InitNorm ==
  /\ pc = "norm"
  /\ diff \in DiffInputs
  /\ originalContent \in OriginalInputs
  /\ fixedDiff = NoText /\ fullFile = FALSE
  /\ IdleApply
  /\ IdleBatch
  /\ IdleOther

SpecNorm == InitNorm /\ [][CallNormalizeDiff]_vars

\* isFullFileDiff(diff, originalContent) on diffs of a given shape: optional
\* file headers, then `hunks` hunk headers, the first followed by `c` content
\* lines, against an original of n lines
ShapedDiff(fileHeaders, hunks, c) ==
  (IF fileHeaders THEN <<OldFileHeader, NewFileHeader>> ELSE <<>>)
  \o (IF hunks >= 1 THEN <<HeaderWrongCounts>> ELSE <<>>)
  \o [i \in 1..c |-> <<(<<" ", "+", "-">>)[(i % 3) + 1], "a">>]
  \o (IF hunks >= 2 THEN <<HeaderNoCounts>> ELSE <<>>)

MaxOriginalLines == 10

CallIsFullFileDiff ==
  /\ pc = "full"
  /\ fullFile' = IsFullFileDiff(diff, originalContent)
  /\ pc' = "full_done"
  /\ UNCHANGED <<otherVars, originalContent, diff, fixedDiff, applyVars, batchVars>>

InitFull ==
  /\ pc = "full"
  /\ \E n \in 1..MaxOriginalLines, c \in 0..MaxOriginalLines,
        fileHeaders \in BOOLEAN, hunks \in 0..2 :
       /\ originalContent = [i \in 1..n |-> <<"a">>]
       /\ diff = Join(ShapedDiff(fileHeaders, hunks, c))
  /\ fixedDiff = NoText /\ fullFile = FALSE
  /\ IdleApply
  /\ IdleBatch
  /\ IdleOther

SpecFull == InitFull /\ [][CallIsFullFileDiff]_vars

\* ------------------------------------------------------------------------
\* Properties of applyPatchWithFallback (SpecApply)
\* ------------------------------------------------------------------------

LastAttempt == attempts[Len(attempts)]

\* C1: the strategies are attempted in the order 1, 2, 3, each only after
\* every earlier one has failed, and the call returns success exactly with
\* the content of the first strategy that succeeds, which is the last one
\* attempted.
C1_StrategiesInOrder ==
  /\ \A k \in DOMAIN attempts : attempts[k].strategy = k
  /\ \A k \in DOMAIN attempts : k < Len(attempts) => attempts[k].outcome = "failed"
  /\ pc = "ret" =>
       /\ attempts # <<>>
       /\ LastAttempt.outcome \in {"ok", "failed"}
       /\ patchResult.success <=> LastAttempt.outcome = "ok"
       /\ patchResult.success => patchResult.content = LastAttempt.content

\* C1 witness: a call that returns the text of strategy 3 after strategies 1
\* and 2 have failed.
C1_Witness ==
  /\ pc = "ret"
  /\ Len(attempts) = 3
  /\ attempts[1].outcome = "failed" /\ attempts[2].outcome = "failed"
  /\ patchResult = Success(TextB)

Strategy3SideEffect ==
  tmp.exists \/ tmp.file # NoText \/ tmp.patch # NoText \/ subprocess

\* C2: strategy 3 has no side effect (temp directory, temp files, subprocess)
\* unless strategies 1 and 2 have both failed and a filePath was given; a
\* call whose strategy 1 fails and whose normalized diff applies returns
\* strategy 2's text with no such side effect.
C2_Strategy3OnlyAfterBothFailed ==
  /\ Strategy3SideEffect =>
       /\ Len(attempts) = 3
       /\ attempts[1].outcome = "failed" /\ attempts[2].outcome = "failed"
       /\ filePath # NoText
  /\ (pc = "ret" /\ Len(attempts) = 2 /\ attempts[2].outcome = "ok") =>
       /\ patchResult = Success(attempts[2].content)
       /\ ~Strategy3SideEffect

\* C2 witness: strategy 1 failed, strategy 2 applied the normalized diff,
\* with a filePath given, and the call returned without touching strategy 3.
C2_Witness ==
  /\ pc = "ret"
  /\ filePath # NoText
  /\ Len(attempts) = 2
  /\ attempts[1].outcome = "failed" /\ attempts[2].outcome = "ok"
  /\ fixedDiff # diff
  /\ patchResult.success
  /\ ~Strategy3SideEffect

\* ------------------------------------------------------------------------
\* Properties of normalizeDiff and isFullFileDiff (SpecNorm, SpecFull)
\* ------------------------------------------------------------------------

\* the index of the first "@@" line of d after index i, or Len(d) + 1
NextMarker(d, i) ==
  LET later == {j \in (i + 1)..Len(d) : IsHunkMarker(d[j])}
  IN  IF later = {} THEN Len(d) + 1 ELSE CHOOSE j \in later : \A k \in later : j <= k

\* the indexes of the lines between the "@@" line at i and the next one
Body(d, i) == (i + 1)..(NextMarker(d, i) - 1)

\* the number of lines of the body of the hunk at i whose first character is in cs
BodyCount(d, i, cs) ==
  Cardinality({j \in Body(d, i) : Len(d[j]) > 0 /\ d[j][1] \in cs})

\* the headers of the line pool that match the hunk-header pattern, with the
\* start lines they declare: "@@ -1,9 +1,9 @@" and "@@<tab>-12  +03 @@ f"
DeclaredStarts(line) ==
  IF line = HeaderWrongCounts THEN <<1, 1>>
  ELSE IF line = HeaderNoCounts THEN <<12, 3>>
  ELSE <<>>

\* C3: off the full-file path, a hunk whose header matches the pattern and
\* whose lines all start with ' ', '+' or '-' gets the header
\* "@@ -oldStart,oldCount +newStart,newCount @@" with the start lines of the
\* input header, oldCount = context + removed and newCount = context + added
\* lines of the hunk, whatever the input header declared.
C3_HeaderRecounted ==
  (pc = "norm_done" /\ ~fullFile) =>
    \A i \in DOMAIN diff :
      (/\ DeclaredStarts(diff[i]) # <<>>
       /\ \A j \in Body(diff, i) : HasContentPrefix(diff[j]))
      => fixedDiff[i] =
           HunkHeader(DeclaredStarts(diff[i])[1], BodyCount(diff, i, {" ", "-"}),
                      DeclaredStarts(diff[i])[2], BodyCount(diff, i, {" ", "+"}))

\* C3 witness: the hunk "@@ -1,9 +1,9 @@", " a", "-a", "+  b" against the
\* eight-line tab-indented original comes out with the header "@@ -1,2 +1,2 @@".
C3_Witness ==
  /\ pc = "norm_done"
  /\ ~fullFile
  /\ originalContent = TabbedOriginal
  /\ diff = <<HeaderWrongCounts, <<" ", "a">>, <<"-", "a">>, <<"+", " ", " ", "b">> >>
  /\ fixedDiff[1] = <<"@", "@", " ", "-", "1", ",", "2", " ", "+", "1", ",", "2", " ", "@", "@">>

\* C4: in every output of normalizeDiff, each hunk header that matches the
\* pattern declares as oldCount the number of lines up to the next "@@" line
\* (or the end) that start with ' ' or '-', and as newCount the number of
\* those that start with ' ' or '+'.  Stated for the outputs that do not go
\* through the diff library (the diff is not classified as full-file), so
\* that only normalizeDiff's own loop decides it.
C4_OutputHeadersCountTheirLines ==
  (pc = "norm_done" /\ ~fullFile) =>
    \A i \in DOMAIN fixedDiff :
      (IsHunkMarker(fixedDiff[i]) /\ HunkHeaderMatch(fixedDiff[i]).ok)
      => fixedDiff[i] =
           HunkHeader(HunkHeaderMatch(fixedDiff[i]).oldStart,
                      BodyCount(fixedDiff, i, {" ", "-"}),
                      HunkHeaderMatch(fixedDiff[i]).newStart,
                      BodyCount(fixedDiff, i, {" ", "+"}))

\* the index of the only "@@" line of a diff that has exactly one
OnlyMarker(d) == CHOOSE i \in DOMAIN d : IsHunkMarker(d[i])

MarkerCount(d) == Cardinality({i \in DOMAIN d : IsHunkMarker(d[i])})

\* C5: isFullFileDiff is true exactly when the diff has one hunk header and
\* 10 * c > 7 * n, c the number of content lines of that hunk and n the
\* number of lines of the original, with or without file-header lines.
C5_FullFileIffSeventyPercent ==
  pc = "full_done" =>
    (fullFile <=>
       /\ MarkerCount(diff) = 1
       /\ 10 * BodyCount(diff, OnlyMarker(diff), {" ", "+", "-"})
            > 7 * Len(originalContent))

\* ------------------------------------------------------------------------
\* Properties of applyPatches (Spec)
\* ------------------------------------------------------------------------

\* applyPatches has just recorded a result and moves on
JustRecorded == pc = "loop" /\ idx > 1

LastResult == results[idx - 1]

LastTrail == trail[idx - 1]

\* C6: whenever applyPatchWithFallback returns success with content c, for
\* every string c, applyPatches overwrites the target with exactly c and
\* records {file, success: true}.
C6_SuccessIsWritten ==
  (JustRecorded /\ LastTrail.existed /\ LastTrail.patch.success) =>
    /\ fs[LastTrail.abs] = LastTrail.patch.content
    /\ LastResult = [file |-> LastResult.file, success |-> TRUE, error |-> Undefined]

\* C7: when the patch attempt for an existing target fails, then at the
\* moment applyPatches moves on the target has the content it had before the
\* attempt, the ".backup" sibling exists with that same content, and the
\* result is success: false with the applicator's error message.
C7_FailureKeepsOriginalAndBackup ==
  (JustRecorded /\ LastTrail.existed /\ ~LastTrail.patch.success) =>
    /\ fs[LastTrail.abs] = LastTrail.original
    /\ LastTrail.original # NoText
    /\ fs[BackupPath(LastTrail.abs)] = LastTrail.original
    /\ LastResult.success = FALSE
    /\ LastResult.error = LastTrail.patch.error
    /\ LastResult.error = RejectedMessage

\* C7 witness: a rejected patch on an existing file, recorded with the
\* applicator's message, the file and its backup holding the original.
C7_Witness ==
  /\ JustRecorded
  /\ LastTrail.existed
  /\ LastTrail.patch = Rejected
  /\ LastResult.error = RejectedMessage
  /\ fs[LastTrail.abs] = TextA
  /\ fs[BackupPath(LastTrail.abs)] = TextA

\* C8 as claimed: for every modification recorded with success: true, no
\* ".backup" sibling of its target exists when applyPatches returns.
C8_NoBackupAfterSuccess ==
  pc = "returned" =>
    \A i \in DOMAIN results :
      results[i].success => fs[BackupPath(trail[i].abs)] = NoText

\* C8 as amended: for every modification recorded with success: true, no
\* ".backup" sibling of its target exists when applyPatches returns, unless
\* deleting that backup failed (which is only logged) or a later modification
\* of the batch names the same file again.
C8_NoBackupUnlessUnlinkFailedOrRepeated ==
  pc = "returned" =>
    \A i \in DOMAIN results :
      results[i].success =>
        \/ fs[BackupPath(trail[i].abs)] = NoText
        \/ ~trail[i].unlinked
        \/ \E j \in DOMAIN results : j > i /\ trail[j].abs = trail[i].abs

\* C8 witness: applyPatches has returned, a modification was recorded with
\* success: true after its backup was deleted, and its target has no backup.
C8_Witness ==
  /\ pc = "returned"
  /\ \E i \in DOMAIN results :
       /\ results[i].success
       /\ trail[i].unlinked
       /\ trail[i].original # trail[i].patch.content
       /\ fs[trail[i].abs] = trail[i].patch.content
       /\ fs[BackupPath(trail[i].abs)] = NoText

\* the patch attempt of the current modification is under way
Patching ==
  pc \in {"s1", "s2", "s3", "s3_file", "s3_diff", "s3_exec", "s3_read", "s3_rm",
          "s3_catch", "ret"}

\* the order of the steps on the current file: the backup holds the original
\* before the patch applicator runs and while the target is written, and the
\* target holds the patched content before the backup is deleted
StepsInOrder ==
  /\ Patching =>
       /\ fs[CurrentAbs] = originalContent
       /\ fs[BackupPath(CurrentAbs)] = originalContent
  /\ pc = "unlink" =>
       /\ fs[CurrentAbs] = patchResult.content
       /\ fs[BackupPath(CurrentAbs)] = originalContent

PatchedAndCleaned ==
  /\ LastResult.success
  /\ fs[LastTrail.abs] = LastTrail.patch.content
  /\ fs[BackupPath(LastTrail.abs)] = NoText

FailedBackupPreserved ==
  /\ ~LastResult.success
  /\ fs[LastTrail.abs] = LastTrail.original
  /\ fs[BackupPath(LastTrail.abs)] = LastTrail.original

PatchedBackupLeft ==
  /\ LastResult.success
  /\ ~LastTrail.unlinked
  /\ fs[LastTrail.abs] = LastTrail.patch.content
  /\ fs[BackupPath(LastTrail.abs)] = LastTrail.original

\* C9 as claimed: backup, patch, overwrite, delete happen in this order, and
\* each existing file ends patched with its backup removed, or unpatched
\* with its backup preserved.
C9_TwoTerminalStates ==
  /\ StepsInOrder
  /\ (JustRecorded /\ LastTrail.existed) => (PatchedAndCleaned \/ FailedBackupPreserved)

\* C9 as amended: backup, patch, overwrite, delete happen in this order, and
\* each existing file for which a result is recorded ends patched with its
\* backup removed, or unpatched with its backup preserved, or, when deleting
\* the backup failed, patched with the backup still holding the original.
C9_ThreeTerminalStates ==
  /\ StepsInOrder
  /\ (JustRecorded /\ LastTrail.existed) =>
       (PatchedAndCleaned \/ FailedBackupPreserved \/ PatchedBackupLeft)

\* C9 witness: a file was backed up, patched, overwritten and its backup
\* deleted, the patched content differing from the original.
C9_Witness ==
  /\ JustRecorded
  /\ LastTrail.existed
  /\ LastTrail.unlinked
  /\ LastTrail.original = TextA
  /\ LastTrail.patch.content = TextB
  /\ PatchedAndCleaned

\* C10: for a modification whose target does not exist, applyPatches records
\* {success: false, error: "File does not exist on disk."}, creates no
\* ".backup" file (no file changes), does not call the patch applicator, and
\* goes on to the next modification.
C10_MissingFileSkipped ==
  [][(pc = "loop" /\ idx <= Len(mods) /\ fs[AbsPath(NormalizePath(mods[idx].path))] = NoText)
       => /\ results' = Append(results,
                               [file |-> NormalizePath(mods[idx].path), success |-> FALSE,
                                error |-> "File does not exist on disk."])
          /\ fs' = fs
          /\ calls' = calls
          /\ idx' = idx + 1
          /\ pc' = "loop"]_vars

\* C10 witness: the first of two modifications named a missing file; its
\* failure is recorded, nothing was written, and the loop is at the second.
C10_Witness ==
  /\ pc = "loop"
  /\ idx = 2
  /\ Len(mods) = 2
  /\ ~trail[1].existed
  /\ results[1].error = MissingFileMessage
  /\ fs[BackupPath(trail[1].abs)] = NoText
  /\ calls = 0

\* ------------------------------------------------------------------------
\* Results, exceptions and the temp directory of applyPatchWithFallback
\* (SpecApply)
\* ------------------------------------------------------------------------

AllAttemptsFailed == \A k \in DOMAIN attempts : attempts[k].outcome = "failed"

\* the strategies a call can attempt: 1 and 2, and 3 when a filePath is given
LastStrategy == IF filePath = NoText THEN 2 ELSE 3

\* C11: when every attempted strategy has failed (all three, or 1 and 2
\* without a filePath) the call returns exactly success: false with the error
\* "Patch rejected - unable to apply with any strategy" and no content; every
\* result with success: true carries in content the text its strategy
\* produced, and no error.
C11_RejectedOrFullText ==
  pc = "ret" =>
    /\ (AllAttemptsFailed /\ Len(attempts) = LastStrategy) =>
         patchResult = [success |-> FALSE, content |-> NoText,
                        error |-> "Patch rejected - unable to apply with any strategy"]
    /\ ~patchResult.success => (AllAttemptsFailed /\ Len(attempts) = LastStrategy)
    /\ patchResult.success =>
         /\ patchResult.content \in FileTexts
         /\ patchResult.content = LastAttempt.content
         /\ patchResult.error = Undefined
         /\ LastAttempt.strategy = 3 => patchResult.content = result

\* C11 witness: strategies 1 and 2 failed, no filePath was given, and the
\* call returned the rejection.
C11_Witness ==
  /\ pc = "ret"
  /\ filePath = NoText
  /\ Len(attempts) = 2
  /\ AllAttemptsFailed
  /\ patchResult = Rejected

\* C12: no exception leaves applyPatchWithFallback: an exception raised at
\* any step of a strategy ends that strategy as failed, the strategies after
\* it are still attempted, and the call returns a structured result.
C12_NoExceptionEscapes ==
  /\ pc # "thrown"
  /\ \A k \in DOMAIN attempts :
       attempts[k].threw # "none" =>
         /\ attempts[k].outcome \in {"running", "failed"}
         /\ k < Len(attempts) => attempts[k].outcome = "failed"
         /\ pc = "ret" =>
              /\ attempts[k].outcome = "failed"
              /\ patchResult.success \/ Len(attempts) = LastStrategy
              /\ patchResult.success => Len(attempts) > k
              /\ patchResult \in {Rejected} \cup {Success(t) : t \in FileTexts}

\* C12 witness: the library threw in strategy 1, strategy 2 failed, removing
\* the temp directory threw in strategy 3, and the call returned the
\* rejection.
C12_Witness ==
  /\ pc = "ret"
  /\ Len(attempts) = 3
  /\ attempts[1].threw = "s1"
  /\ attempts[3].threw = "s3_rm"
  /\ patchResult = Rejected

\* C13: whenever strategy 3 has created its temp directory, the directory no
\* longer exists when applyPatchWithFallback returns, on the success path and
\* on the failure paths.  Stated for the paths on which the failure is not a
\* failure of the removal itself: success, failure writing the temp copy,
\* failure of normalizeDiff or of writing the patch file.
C13_TmpDirRemovedAtReturn ==
  (pc = "ret" /\ Len(attempts) = 3 /\ LastAttempt.threw \in {"none", "s3_file", "s3_diff"})
    => ~tmp.exists

\* ------------------------------------------------------------------------
\* The result list of applyPatches (Spec)
\* ------------------------------------------------------------------------

\* C14: applyPatches returns exactly one result per modification, in the
\* order of the modifications, each with the normalized relative path of its
\* modification as file; a missing file or a rejected patch does not keep a
\* later modification from being processed.
C14_OneResultPerModification ==
  /\ Len(results) = idx - 1
  /\ \A i \in DOMAIN results : results[i].file = NormalizePath(mods[i].path)
  /\ pc = "returned" => Len(results) = Len(mods)

\* C14 witness: applyPatches returned two results, the first a rejected
\* patch, the second a success for a path given with a backslash.
C14_Witness ==
  /\ pc = "returned"
  /\ Len(mods) = 2
  /\ trail[1].existed /\ ~results[1].success
  /\ mods[2].path = <<"d", "\\", "b">>
  /\ results[2] = [file |-> <<"d", "/", "b">>, success |-> TRUE, error |-> Undefined]

\* C15: applyPatches never throws for a per-file failure: a failure reading
\* the target, writing its backup or writing the patched content becomes a
\* failed result for that file and the loop goes on.
C15_NeverThrows == pc # "thrown"

\* ------------------------------------------------------------------------
\* Backups left by failed attempts (Spec)
\* ------------------------------------------------------------------------

\* the attempts after attempt i: those recorded and the one under way
LaterAttempts(i) == {j \in DOMAIN mods : i < j /\ j <= idx}

TargetOf(j) == AbsPath(NormalizePath(mods[j].path))

\* attempt i on an existing file failed and no later attempt on that path
\* has been recorded as a success
FailedAndNotSucceededSince(i) ==
  /\ trail[i].existed
  /\ ~results[i].success
  /\ ~\E j \in DOMAIN results :
        j > i /\ trail[j].abs = trail[i].abs /\ results[j].success

\* a later modification names the backup file of attempt i as its target, or
\* the file whose ".backup" sibling the target of attempt i is
BackupFileTargeted(i) ==
  \E j \in LaterAttempts(i) :
    \/ TargetOf(j) = BackupPath(trail[i].abs)
    \/ BackupPath(TargetOf(j)) = trail[i].abs

\* C16 as claimed: the backup left by a failed attempt on a path exists with
\* the pre-patch original as content across every later failing attempt on
\* that path, until an attempt on that path succeeds; nothing else the runner
\* does deletes or changes it.
C16_FailedBackupPersists ==
  \A i \in DOMAIN results :
    FailedAndNotSucceededSince(i) =>
      fs[BackupPath(trail[i].abs)] = trail[i].original

\* C16 as amended: the same, provided no later modification names as its
\* target the backup file itself or the file whose ".backup" sibling the
\* failed target is.
C16_FailedBackupPersistsUnlessTargeted ==
  \A i \in DOMAIN results :
    (FailedAndNotSucceededSince(i) /\ ~BackupFileTargeted(i)) =>
      fs[BackupPath(trail[i].abs)] = trail[i].original

\* C16 witness: two attempts on the same path were both rejected, and the
\* backup left by the first still holds the original after the second.
C16_Witness ==
  /\ pc = "returned"
  /\ Len(results) = 2
  /\ trail[1].abs = trail[2].abs
  /\ trail[1].existed /\ ~results[1].success /\ ~results[2].success
  /\ trail[1].original = TextA
  /\ fs[BackupPath(trail[1].abs)] = TextA

\* ------------------------------------------------------------------------
\* normalizeDiff on tab-indented originals and space-indented diffs
\* (SpecIndent)
\* ------------------------------------------------------------------------

\* the largest number of leading spaces of a content line of the input
MaxIndent == 4

\* a content line: its marker, `spaces` leading spaces, then text
IndentedLine(marker, spaces) == <<marker>> \o Repeat(" ", spaces) \o <<"x">>

\* the removal of the line "--  x": it starts with '---'
RemovalOfDashes == <<"-", "-", "-", " ", " ", "x">>

IndentedLines ==
  {IndentedLine(marker, spaces) : marker \in {" ", "+", "-"}, spaces \in 0..MaxIndent}
    \cup {RemovalOfDashes}

\* one hunk of one or two space-indented content lines
IndentedDiffs ==
  {<<HeaderWrongCounts>> \o body : body \in SeqsUpTo(IndentedLines, 2)}

\* tab-indented originals: tabs only (tab size 2 by default), tabs with a few
\* four-space lines (tab size 4), and a single tabbed line (against which
\* every diff is a full-file diff)
TabsOnlyOriginal == [i \in 1..4 |-> <<"\t", "a">>]

TabsAndFourSpacesOriginal ==
  [i \in 1..4 |-> IF i = 4 THEN <<" ", " ", " ", " ", "b">> ELSE <<"\t", "a">>]

OneTabbedLineOriginal == << <<"\t", "a">> >>

TabbedOriginals == {TabsOnlyOriginal, TabsAndFourSpacesOriginal, OneTabbedLineOriginal}

\* an original indented with spaces only
FourSpacesOriginal == [i \in 1..4 |-> <<" ", " ", " ", " ", "b">>]

InitIndent ==
  /\ pc = "norm"
  /\ diff \in IndentedDiffs
  /\ originalContent \in TabbedOriginals \cup {FourSpacesOriginal}
  /\ fixedDiff = NoText /\ fullFile = FALSE
  /\ IdleApply
  /\ IdleBatch
  /\ IdleOther

SpecIndent == InitIndent /\ [][CallNormalizeDiff]_vars

\* length of the leading whitespace (spaces and tabs) of a content line,
\* after its marker
RECURSIVE IndentLength(_)
IndentLength(cs) ==
  IF cs # <<>> /\ Head(cs) \in {" ", "\t"} THEN 1 + IndentLength(Tail(cs)) ELSE 0

Indent(line) == SubSeq(Tail(line), 1, IndentLength(Tail(line)))

AfterIndent(line) == SubSeq(Tail(line), IndentLength(Tail(line)) + 1, Len(line) - 1)

ContentLinesOf(d) == {i \in DOMAIN d : HasContentPrefix(d[i])}

SpaceIndented(d) ==
  \A i \in ContentLinesOf(d) : \A k \in DOMAIN Indent(d[i]) : Indent(d[i])[k] = " "

TabsOnly(d) ==
  \A i \in ContentLinesOf(d) : \A k \in DOMAIN Indent(d[i]) : Indent(d[i])[k] = "\t"

\* outside the full-file path the output has the lines of the input, each
\* with its marker and with everything after its leading whitespace
RestUnchanged ==
  ~fullFile =>
    /\ Len(fixedDiff) = Len(diff)
    /\ \A i \in ContentLinesOf(diff) :
         /\ fixedDiff[i][1] = diff[i][1]
         /\ AfterIndent(fixedDiff[i]) = AfterIndent(diff[i])

\* every content line of the input has a number of leading spaces that is a
\* multiple of the tab size detected from the original
IndentMultipleOfTabSize ==
  \A i \in ContentLinesOf(diff) :
    IndentLength(Tail(diff[i])) % DetectIndentation(originalContent).tabSize = 0

\* C17 as claimed: for a tab-indented original and a diff whose content lines
\* are indented with spaces, N per level, no content line of normalizeDiff's
\* output has a space in its leading whitespace, and everything after the
\* leading whitespace of each line is unchanged.
C17_TabsOnlyForAnyWidth ==
  (pc = "norm_done" /\ DetectIndentation(originalContent).useTabs /\ SpaceIndented(diff)) =>
    /\ TabsOnly(fixedDiff)
    /\ RestUnchanged

\* C17 as amended: the same for diffs whose content lines are indented by a
\* multiple of the tab size that detectIndentation derives from the original
\* (the greatest common divisor of the original's leading-space widths when
\* it lies in 2..8, else 2).
C17_TabsOnlyForMultiplesOfTabSize ==
  (pc = "norm_done" /\ DetectIndentation(originalContent).useTabs /\ SpaceIndented(diff)
     /\ IndentMultipleOfTabSize) =>
    /\ TabsOnly(fixedDiff)
    /\ RestUnchanged

\* C17 witness: against a tabs-only original a line added with four spaces
\* comes out with two tabs, outside the full-file path.
C17_Witness ==
  /\ pc = "norm_done"
  /\ ~fullFile
  /\ originalContent = TabsOnlyOriginal
  /\ diff = <<HeaderWrongCounts, <<"+", " ", " ", " ", " ", "x">> >>
  /\ fixedDiff[2] = <<"+", "\t", "\t", "x">>

\* ------------------------------------------------------------------------
\* Two processes in strategy 3 (SpecTwo)
\* ------------------------------------------------------------------------

\* `/tmp/patch-${Date.now()}` of the other process: this call's directory
\* when both read the same clock value, a directory of its own otherwise
PeerDir == IF peer.sameTick THEN tmp ELSE peer.dir

\* the other process changes its directory to d and moves to statement p
PeerSets(d, p) ==
  IF peer.sameTick
    THEN tmp' = d /\ peer' = [peer EXCEPT !.pc = p]
    ELSE peer' = [peer EXCEPT !.pc = p, !.dir = d] /\ UNCHANGED tmp

\* lines 72-73 in the other process: Date.now() gives the clock value of
\* this call or another one; mkdirSync with recursive: true accepts a
\* directory that exists
PeerMakeTmpDir ==
  /\ peer.pc = "idle"
  /\ \E same \in BOOLEAN :
       LET dir == IF same THEN tmp ELSE peer.dir
       IN  /\ peer' = [pc |-> "s3_file", sameTick |-> same,
                       dir |-> IF same THEN NoTmp ELSE [dir EXCEPT !.exists = TRUE]]
           /\ tmp' = IF same THEN [dir EXCEPT !.exists = TRUE] ELSE tmp
  /\ UNCHANGED <<pc, normVars, filePath, result, patchResult, attempts, subprocess,
                 batchVars, extracted, indentation, twin>>

\* lines 78-80 in the other process, patching a file of the same basename:
\* its original and its normalized diff are written, or the write fails
\* because the directory is gone
PeerWriteTmpFiles ==
  /\ peer.pc = "s3_file"
  /\ IF PeerDir.exists
       THEN PeerSets([PeerDir EXCEPT !.file = TextB, !.patch = DiffGarbage], "s3_exec")
       ELSE peer' = [peer EXCEPT !.pc = "done"] /\ UNCHANGED tmp
  /\ UNCHANGED <<pc, normVars, filePath, result, patchResult, attempts, subprocess,
                 batchVars, extracted, indentation, twin>>

\* lines 83-88 in the other process: the patch command rewrites the temp
\* copy, or fails
PeerRunPatch ==
  /\ peer.pc = "s3_exec"
  /\ \/ /\ PeerDir.exists /\ PeerDir.file # NoText /\ PeerDir.patch # NoText
        /\ \E t \in FileTexts : PeerSets([PeerDir EXCEPT !.file = t], "s3_rm")
     \/ /\ peer' = [peer EXCEPT !.pc = "s3_rm"]
        /\ UNCHANGED tmp
  /\ UNCHANGED <<pc, normVars, filePath, result, patchResult, attempts, subprocess,
                 batchVars, extracted, indentation, twin>>

\* line 91 or 95 in the other process: fs.rmSync(tmpDir, { recursive: true })
PeerRemoveTmpDir ==
  /\ peer.pc = "s3_rm"
  /\ IF PeerDir.exists
       THEN PeerSets(NoTmp, "done")
       ELSE peer' = [peer EXCEPT !.pc = "done"] /\ UNCHANGED tmp
  /\ UNCHANGED <<pc, normVars, filePath, result, patchResult, attempts, subprocess,
                 batchVars, extracted, indentation, twin>>

PeerNext ==
  \/ PeerMakeTmpDir
  \/ PeerWriteTmpFiles
  \/ PeerRunPatch
  \/ PeerRemoveTmpDir

\* applyPatchWithFallback(originalContent, diff, filePath) while another
\* process runs strategy 3
InitTwo ==
  /\ pc = "s1"
  /\ originalContent \in FileTexts
  /\ diff \in ModDiffs
  /\ fixedDiff = NoText /\ fullFile = FALSE
  /\ filePath = AbsPath(<<"a">>)
  /\ tmp = NoTmp /\ result = NoText /\ patchResult = NoResult
  /\ attempts = <<>> /\ subprocess = FALSE
  /\ IdleBatch
  /\ IdleOther

SpecTwo == InitTwo /\ [][ApplyWithPath \/ PeerNext]_vars

\* the statements between creating the temp directory and removing it
InStrategy3 == {"s3_file", "s3_diff", "s3_exec", "s3_read", "s3_rm", "s3_catch"}

\* C19: two invocations that reach strategy 3 never have the same temp
\* directory in use at the same time, also when they start within the same
\* clock tick; so the temp copy and the patch file of this call hold what
\* this call wrote when its patch command starts.
C19_TmpDirExclusive ==
  /\ ~(peer.sameTick /\ pc \in InStrategy3 /\ peer.pc \in InStrategy3)
  /\ pc = "s3_exec" => (tmp.file = originalContent /\ tmp.patch = fixedDiff)

\* ------------------------------------------------------------------------
\* Zero-length lines inside a hunk (SpecBlank)
\* ------------------------------------------------------------------------

\* extractContentFromDiff(diff), called after normalizeDiff on the same diff
CallExtractContentFromDiff ==
  /\ pc = "norm_done"
  /\ extracted' = ExtractContentFromDiff(diff)
  /\ pc' = "extract_done"
  /\ UNCHANGED <<normVars, applyVars, batchVars, peer, indentation, twin>>

SpecBlank == InitNorm /\ [][CallNormalizeDiff \/ CallExtractContentFromDiff]_vars

\* the zero-length lines that lie inside a hunk: after a header that matches
\* the pattern, with only content lines and zero-length lines in between,
\* and before the last line of the diff
BlankHunkLines(d) ==
  {i \in DOMAIN d :
     /\ d[i] = <<>>
     /\ i < Len(d)
     /\ \E h \in 1..(i - 1) :
          /\ HunkHeaderMatch(d[h]) # NoMatch
          /\ \A k \in (h + 1)..(i - 1) : HasContentPrefix(d[k]) \/ d[k] = <<>>}

\* the diff with each of them written as a context line with empty content
BlankAsContext(d) ==
  [i \in DOMAIN d |-> IF i \in BlankHunkLines(d) THEN <<" ">> ELSE d[i]]

\* C20: a zero-length line inside a hunk is treated as a context line with
\* empty content by every step that classifies hunk lines: isFullFileDiff,
\* extractContentFromDiff and the header recount of normalizeDiff give what
\* they give for the diff in which that line is the context line " ".
C20_BlankLineIsContext ==
  (pc = "extract_done" /\ BlankHunkLines(diff) # {}) =>
    /\ fullFile = IsFullFileDiff(BlankAsContext(diff), originalContent)
    /\ extracted = ExtractContentFromDiff(BlankAsContext(diff))
    /\ ~fullFile => fixedDiff = NormalizeDiff(BlankAsContext(diff), originalContent)

\* ------------------------------------------------------------------------
\* Applying the same diff to the patched content (SpecReapply)
\* ------------------------------------------------------------------------

RemoveFirstLine == <<HunkHeader(1, 1, 1, 0), <<"-", "a">> >>

ReplaceFirstLine == <<HunkHeader(1, 1, 1, 1), <<"-", "a">>, <<"+", "b">> >>

ReapplyDiffs == {RemoveFirstLine, ReplaceFirstLine, DiffGarbage}

ReapplyOriginals == {TextA, << <<"a">>, <<"a">>, <<"a">> >>, << <<"a">>, <<"b">> >>}

\* the caller takes the content of a successful call that changed the text
\* and calls applyPatchWithFallback again with the same diff and filePath
Reapply ==
  /\ pc = "ret"
  /\ calls = 1
  /\ patchResult.success
  /\ patchResult.content # originalContent
  /\ originalContent' = patchResult.content
  /\ tmp' = NoTmp /\ result' = NoText /\ patchResult' = NoResult
  /\ attempts' = <<>> /\ subprocess' = FALSE
  /\ calls' = 2
  /\ trail' = Append(trail, [abs |-> filePath, existed |-> TRUE,
                              original |-> originalContent, patch |-> patchResult,
                              unlinked |-> FALSE])
  /\ pc' = "s1"
  /\ UNCHANGED <<diff, fixedDiff, fullFile, filePath, fs, mods, idx, results, otherVars>>

InitReapply ==
  /\ pc = "s1"
  /\ originalContent \in ReapplyOriginals
  /\ diff \in ReapplyDiffs
  /\ fixedDiff = NoText /\ fullFile = FALSE
  /\ filePath \in {NoText, AbsPath(<<"a">>)}
  /\ tmp = NoTmp /\ result = NoText /\ patchResult = NoResult
  /\ attempts = <<>> /\ subprocess = FALSE
  /\ fs = [p \in FsPaths |-> NoText] /\ mods = <<>> /\ idx = 1
  /\ results = <<>> /\ trail = <<>> /\ calls = 1
  /\ IdleOther

SpecReapply == InitReapply /\ [][ApplyNext \/ Reapply]_vars

\* C18: when applyPatchWithFallback has applied a diff to O with a result P
\* that differs from O, the call with the same diff on P returns success:
\* false.  Stated for the diffs that are a valid patch of O with result P and
\* also a valid patch of P, for which what applyPatch returns is known.
C18_ReapplyFails ==
  (/\ pc = "ret" /\ calls = 2
   /\ ExactApply(trail[1].original, diff) = originalContent
   /\ trail[1].patch = Success(originalContent)
   /\ ExactApply(originalContent, diff) # NoText)
    => ~patchResult.success

\* ------------------------------------------------------------------------
\* Both sides of a diff (SpecBlank)
\* ------------------------------------------------------------------------

\* line i lies in the body of a hunk: after a header that matches the
\* pattern, with only content lines in between
InHunkBody(d, i) ==
  \E h \in 1..(i - 1) :
    /\ HunkHeaderMatch(d[h]) # NoMatch
    /\ \A k \in (h + 1)..(i - 1) : HasContentPrefix(d[k])

\* the lines with one of the prefixes cs, except the hunk headers and the
\* file headers, a file header being a '---' or '+++' line outside a hunk body
SideLines(d, cs) ==
  {i \in DOMAIN d :
     /\ Len(d[i]) > 0 /\ d[i][1] \in cs
     /\ IsFileHeader(d[i]) => InHunkBody(d, i)}

\* C21: extractContentFromDiff reconstructs both sides from the hunk lines in
\* order: every removal line, whatever its payload, contributes its payload to
\* oldContent only, every addition line to newContent only, every context
\* line to both, and only file-header and hunk-header lines are skipped.
C21_BothSidesFromHunkLines ==
  pc = "extract_done" =>
    /\ extracted.oldContent = Join(Payloads(SelectLines(diff, SideLines(diff, {"-", " "}))))
    /\ extracted.newContent = Join(Payloads(SelectLines(diff, SideLines(diff, {"+", " "}))))

\* ------------------------------------------------------------------------
\* convertSpacesToTabs, line by line (SpecIndent)
\* ------------------------------------------------------------------------

\* n, the number of leading spaces of a payload
SpacesBefore(payload) ==
  CHOOSE n \in 0..Len(payload) :
    /\ \A k \in 1..n : payload[k] = " "
    /\ n < Len(payload) => payload[n + 1] # " "

\* same prefix, floor(n / t) tabs, n mod t spaces, rest of the payload
TabsThenSpaces(line, t) ==
  LET n == SpacesBefore(Tail(line))
  IN  <<line[1]>> \o [k \in 1..(n \div t) |-> "\t"] \o [k \in 1..(n % t) |-> " "]
        \o SubSeq(line, n + 2, Len(line))

\* the lines that convertSpacesToTabs may rewrite
IsConvertible(line) ==
  /\ Len(line) > 0 /\ line[1] \in {" ", "+", "-"}
  /\ ~StartsWith(line, <<"-", "-", "-">>) /\ ~StartsWith(line, <<"+", "+", "+">>)

\* C23: convertSpacesToTabs with tab size t maps every content line whose
\* payload starts with n spaces to the same prefix, floor(n / t) tabs,
\* (n mod t) spaces and the rest unchanged, and returns every other line
\* unchanged, number and order of lines preserved; normalizeDiff applies it
\* only when the original content is detected as tab-indented.
C23_ConvertSpacesToTabs ==
  (pc = "norm_done" /\ ~fullFile) =>
    /\ Len(fixedDiff) = Len(diff)
    /\ \A i \in DOMAIN diff :
         (~IsHunkMarker(diff[i]) /\ diff[i] # <<>>) =>
           fixedDiff[i] = IF indentation.useTabs /\ IsConvertible(diff[i])
                            THEN TabsThenSpaces(diff[i], indentation.tabSize)
                            ELSE diff[i]

\* a line with three leading spaces was converted with tab size 2, a '---'
\* line was left alone
C23_Witness ==
  /\ pc = "norm_done" /\ ~fullFile
  /\ indentation = [useTabs |-> TRUE, tabSize |-> 2]
  /\ \E i, j \in DOMAIN diff :
       /\ diff[i] = <<"+", " ", " ", " ", "x">>
       /\ fixedDiff[i] = <<"+", "\t", " ", "x">>
       /\ diff[j] = RemovalOfDashes /\ fixedDiff[j] = diff[j]

\* ------------------------------------------------------------------------
\* detectIndentation on long and short contents (SpecDetect)
\* ------------------------------------------------------------------------

\* the largest number of indented lines of a content
MaxIndentedLines == 3

\* a line of a content: it starts with a tab, or with `spaces` spaces
TabLine == <<"\t", "a">>

SpaceLine(spaces) == [k \in 1..spaces |-> " "] \o <<"b">>

SpaceWidths == {1, 2, 4, 6, 9}

ContentLines == {TabLine} \cup {SpaceLine(w) : w \in SpaceWidths}

\* the numbers of unindented lines before the indented ones: none, or enough
\* to put some or all of the indented lines after the sample
FillerCounts ==
  {0, IndentSampleLines - 2, IndentSampleLines - 1, IndentSampleLines}

DetectContents ==
  {IF filler = 0 /\ body = <<>> THEN EmptyText
     ELSE [k \in 1..filler |-> <<"a">>] \o body :
   filler \in FillerCounts, body \in SeqsUpTo(ContentLines, MaxIndentedLines)}

InitDetect ==
  /\ pc = "norm"
  /\ diff = DiffWrongCounts
  /\ originalContent \in DetectContents
  /\ fixedDiff = NoText /\ fullFile = FALSE
  /\ IdleApply
  /\ IdleBatch
  /\ IdleOther

SpecDetect == InitDetect /\ [][CallNormalizeDiff]_vars

\* the lengths of the leading-space runs of all lines
RunLengths(content) ==
  {SpacesBefore(content[i]) : i \in DOMAIN content} \ {0}

Divides(g, ns) == \A n \in ns : n % g = 0

\* the greatest common divisor of a non-empty set of positive numbers
GreatestDivisor(ns) ==
  CHOOSE g \in 1..(CHOOSE n \in ns : TRUE) :
    /\ Divides(g, ns)
    /\ \A h \in 1..(CHOOSE n \in ns : TRUE) : Divides(h, ns) => h <= g

FirstHundred(content) == {i \in DOMAIN content : i <= 100}

\* C24: detectIndentation returns tabSize = g when the gcd g of the lengths
\* of all leading-space runs of all lines satisfies 2 <= g <= 8, and 2
\* otherwise (no run, g = 1, g > 8), so tabSize is always in [2, 8]; useTabs
\* is true exactly when, among the first 100 lines only, strictly more lines
\* start with a tab than with two or more spaces.
C24_DetectIndentation ==
  pc = "norm_done" =>
    LET runs   == RunLengths(originalContent)
        g      == IF runs = {} THEN 0 ELSE GreatestDivisor(runs)
        tabbed == {i \in FirstHundred(originalContent) :
                     originalContent[i] # <<>> /\ originalContent[i][1] = "\t"}
        spaced == {i \in FirstHundred(originalContent) :
                     SpacesBefore(originalContent[i]) >= 2}
    IN  /\ indentation.tabSize = IF 2 <= g /\ g <= 8 THEN g ELSE 2
        /\ indentation.tabSize \in 2..8
        /\ indentation.useTabs = (Cardinality(tabbed) > Cardinality(spaced))
        /\ originalContent = EmptyText => indentation = [useTabs |-> FALSE, tabSize |-> 2]

\* the only tab line is in the sample, two space-indented lines (6 and 9
\* spaces, gcd 3) come after it: useTabs is true and tabSize is 3
C24_Witness ==
  /\ pc = "norm_done"
  /\ Len(originalContent) = 102
  /\ originalContent[100] = TabLine
  /\ originalContent[101] = SpaceLine(6) /\ originalContent[102] = SpaceLine(9)
  /\ indentation = [useTabs |-> TRUE, tabSize |-> 3]

\* ------------------------------------------------------------------------
\* '@@' lines that do not match the hunk-header pattern (SpecNorm)
\* ------------------------------------------------------------------------

\* the '@@' lines of the line pool that do not match the pattern: "@@ x"
MalformedHeaders(d) ==
  {i \in DOMAIN d : IsHunkMarker(d[i]) /\ DeclaredStarts(d[i]) = <<>>}

\* C25 as claimed: a line that starts with '@@' but does not match the
\* hunk-header pattern is emitted by normalizeDiff unchanged, and the lines
\* that follow it up to the next '@@' line are emitted unchanged as well (no
\* recount, no line dropped or rewritten).
C25_MalformedHeaderPassesThrough ==
  pc = "norm_done" =>
    \A i \in MalformedHeaders(diff) :
      /\ Len(fixedDiff) = Len(diff)
      /\ fixedDiff[i] = diff[i]
      /\ \A k \in Body(diff, i) : fixedDiff[k] = diff[k]

\* C25, amended: when the diff is not classified as a full-file diff, such a
\* line is emitted unchanged and in place, and the lines that follow it up to
\* the next '@@' line are emitted in place, unchanged except for the
\* conversion of leading spaces to tabs that every content line undergoes
\* when the original is tab-indented.
C25_MalformedHeaderPassesThroughOffFullFile ==
  (pc = "norm_done" /\ ~fullFile) =>
    \A i \in MalformedHeaders(diff) :
      /\ Len(fixedDiff) = Len(diff)
      /\ fixedDiff[i] = diff[i]
      /\ \A k \in Body(diff, i) :
           fixedDiff[k] = IF indentation.useTabs /\ IsConvertible(diff[k])
                            THEN TabsThenSpaces(diff[k], indentation.tabSize)
                            ELSE diff[k]

\* a malformed header followed by a line that was converted and by lines
\* that were not
C25_Witness ==
  /\ pc = "norm_done" /\ ~fullFile /\ indentation.useTabs
  /\ diff = <<HeaderMalformed, <<"+", " ", " ", "b">>, <<>>, <<"-", "a">> >>
  /\ fixedDiff = <<HeaderMalformed, <<"+", "\t", "b">>, <<>>, <<"-", "a">> >>

\* ------------------------------------------------------------------------
\* The header-correction loop, line for line (SpecNorm)
\* ------------------------------------------------------------------------

\* line i was collected into a hunk: it comes after a header that matches the
\* pattern, with only content lines and zero-length lines in between
InCollectedHunk(d, i) ==
  \E h \in 1..(i - 1) :
    /\ DeclaredStarts(d[h]) # <<>>
    /\ \A k \in (h + 1)..(i - 1) : HasContentPrefix(d[k]) \/ d[k] = <<>>

\* the three ways in which an output line may differ from its input line
IsRewrittenHeader(old, new) ==
  /\ DeclaredStarts(old) # <<>>
  /\ \E oldCount, newCount \in 0..MaxDiffLines :
       new = HunkHeader(DeclaredStarts(old)[1], oldCount, DeclaredStarts(old)[2], newCount)

IsTabConverted(old, new) ==
  /\ indentation.useTabs /\ IsConvertible(old)
  /\ new = TabsThenSpaces(old, indentation.tabSize)

IsBlankMadeContext(d, i, new) == d[i] = <<>> /\ InCollectedHunk(d, i) /\ new = <<" ">>

\* C26: the header-correction loop terminates on every input (the line index
\* strictly increases at each outer iteration, also after a hunk whose
\* collection stopped at a non-content line), and off the full-file path the
\* output has exactly as many lines as the input, in the same order, each
\* differing from its input line only as a rewritten hunk header, a
\* tab-converted content line, or an empty line inside a hunk that became a
\* single space.
C26_LineForLine ==
  (pc = "norm_done" /\ ~fullFile) =>
    /\ \A i \in DOMAIN diff : HunkEnd(diff, i + 1) \in (i + 1)..(Len(diff) + 1)
    /\ Len(fixedDiff) = Len(diff)
    /\ \A i \in DOMAIN diff :
         \/ fixedDiff[i] = diff[i]
         \/ IsRewrittenHeader(diff[i], fixedDiff[i])
         \/ IsTabConverted(diff[i], fixedDiff[i])
         \/ IsBlankMadeContext(diff, i, fixedDiff[i])

\* a hunk whose collection stopped at a "\ No newline" line, which is passed
\* through, and after it a hunk whose zero-length line became a single space
C26_Witness ==
  /\ pc = "norm_done" /\ ~fullFile
  /\ diff = <<HeaderWrongCounts, NoNewlineMarker, HeaderNoCounts, <<>> >>
  /\ fixedDiff = <<HunkHeader(1, 0, 1, 0), NoNewlineMarker, HunkHeader(12, 1, 3, 1), <<" ">> >>

\* ------------------------------------------------------------------------
\* normalizeDiff applied to its own output (SpecAgain)
\* ------------------------------------------------------------------------

\* normalizeDiff(normalizeDiff(diff, originalContent), originalContent): the
\* outer call
CallNormalizeDiffAgain ==
  /\ pc = "norm_done"
  /\ twin' = [diff      |-> fixedDiff,
              fixedDiff |-> NormalizeDiff(fixedDiff, originalContent),
              fullFile  |-> IsFullFileDiff(fixedDiff, originalContent)]
  /\ pc' = "again_done"
  /\ UNCHANGED <<normVars, applyVars, batchVars, extracted, peer, indentation>>

SpecAgain == InitNorm /\ [][CallNormalizeDiff \/ CallNormalizeDiffAgain]_vars

\* C27: normalizeDiff is idempotent on diffs it does not classify as
\* full-file: for every D and O with isFullFileDiff(D, O) false,
\* normalizeDiff(normalizeDiff(D, O), O) = normalizeDiff(D, O); in particular
\* the output of the first pass is itself not classified as full-file.
C27_Idempotent ==
  (pc = "again_done" /\ ~fullFile) =>
    /\ ~twin.fullFile
    /\ twin.fixedDiff = fixedDiff

\* ------------------------------------------------------------------------
\* What applyPatches changes in the repository (Spec)
\* ------------------------------------------------------------------------

\* the files named by the modifications, and their '.backup' siblings
Targets == {TargetOf(j) : j \in DOMAIN mods}

BackupSiblings == {BackupPath(t) : t \in Targets}

\* this step writes to p the content returned by a successful patch attempt
\* for p
WritesPatched(p) ==
  /\ pc = "ret" /\ p = CurrentAbs
  /\ ~PatchFailed(patchResult)
  /\ fs'[p] = patchResult.content

\* this step writes or deletes p as the backup of the target being patched
TouchesAsBackup(p) ==
  /\ pc \in {"backup", "unlink"} /\ p = BackupPath(CurrentAbs)
  /\ fs'[p] \in {originalContent, NoText}

\* C28 as claimed: the only repository files whose existence or content
\* changes are the target files and their '.backup' siblings, and a target's
\* content changes only at the step that writes the content returned by a
\* successful patch attempt for that target.
C28_OnlyTargetsAndBackupsChange ==
  [][\A p \in FsPaths :
       fs'[p] # fs[p] =>
         /\ p \in Targets \cup BackupSiblings
         /\ p \in Targets => WritesPatched(p)]_vars

\* C28, amended: the same, except for a target that is itself the '.backup'
\* sibling of another target, which is also overwritten and deleted as that
\* target's backup; a '.backup' sibling changes only as the backup of the
\* target being patched.
C28_OnlyTargetsAndBackupsChangeUnlessAliased ==
  [][\A p \in FsPaths :
       fs'[p] # fs[p] =>
         /\ p \in Targets \cup BackupSiblings
         /\ p \notin BackupSiblings => WritesPatched(p)
         /\ p \in BackupSiblings => (WritesPatched(p) /\ p \in Targets) \/ TouchesAsBackup(p)]_vars

\* a file was patched, a later modification of another file was rejected,
\* and the first file holds its patched content
C28_Witness ==
  /\ pc = "returned" /\ Len(results) = 2
  /\ results[1].success /\ ~results[2].success /\ trail[2].existed
  /\ trail[1].abs # trail[2].abs
  /\ trail[1].abs \notin BackupSiblings
  /\ fs[trail[1].abs] = trail[1].patch.content
  /\ fs[trail[1].abs] # trail[1].original

\* ------------------------------------------------------------------------
\* The same path named more than once (Spec)
\* ------------------------------------------------------------------------

\* the attempts before attempt j that were made on the path of attempt j and
\* found the file
EarlierOnSamePath(j) ==
  {i \in 1..(j - 1) : i \in DOMAIN trail /\ trail[i].abs = TargetOf(j) /\ trail[i].existed}

LatestEarlier(j) ==
  CHOOSE i \in EarlierOnSamePath(j) : \A k \in EarlierOnSamePath(j) : k <= i

\* what attempt i left in its target: the patched content after a success,
\* the untouched content after a failure
LeftBy(i) == IF results[i].success THEN trail[i].patch.content ELSE trail[i].original

\* no modification between i and j had the path of attempt j as the backup
\* of its own target
NotUsedAsBackupBetween(i, j) ==
  \A k \in (i + 1)..(j - 1) : BackupPath(TargetOf(k)) # TargetOf(j)

MaxBodyLines == 3

\* hunk headers that differ only in their numbers
TwinHeaders == {HunkHeader(1, 9, 1, 9), HunkHeader(5, 2, 7, 3), HunkHeader(12, 1, 3, 1)}

TwinBodies ==
  SeqsUpTo({<<" ", "a">>, <<"+", " ", " ", "b">>, <<"-", "a">>, <<>>}, MaxBodyLines)

\* normalizeDiff(twin.diff, originalContent): the call on the second diff
CallNormalizeDiffTwin ==
  /\ pc = "norm_done"
  /\ twin' = [diff      |-> twin.diff,
              fixedDiff |-> NormalizeDiff(twin.diff, originalContent),
              fullFile  |-> IsFullFileDiff(twin.diff, originalContent)]
  /\ pc' = "twin_done"
  /\ UNCHANGED <<normVars, applyVars, batchVars, extracted, peer, indentation>>

InitTwin ==
  /\ pc = "norm"
  /\ originalContent \in OriginalInputs
  /\ \E body \in TwinBodies :
       \E h1, h2 \in TwinHeaders :
         /\ h1 # h2
         /\ diff = <<h1>> \o body
         /\ twin = [diff |-> <<h2>> \o body, fixedDiff |-> NoText, fullFile |-> FALSE]
  /\ fixedDiff = NoText /\ fullFile = FALSE
  /\ IdleApply
  /\ IdleBatch
  /\ extracted = NoExtract /\ peer = IdlePeer /\ indentation = NoIndentation

SpecTwin == InitTwin /\ [][CallNormalizeDiff \/ CallNormalizeDiffTwin]_vars

\* C30: on the full-file path the output of normalizeDiff depends only on the
\* content lines of the input diff and on the original's indentation: two
\* diffs both classified as full-file that differ only in the numbers of
\* their hunk header produce the same output (the declared start line is not
\* carried into the regenerated hunks).
C30_HeaderNumbersIgnored ==
  (pc = "twin_done" /\ fullFile /\ twin.fullFile) => twin.fixedDiff = fixedDiff

\* a hunk declared at line 5 and the same hunk declared at line 12 were both
\* regenerated into the same hunk at line 1
C30_Witness ==
  /\ pc = "twin_done" /\ fullFile /\ twin.fullFile
  /\ diff[1] = HunkHeader(5, 2, 7, 3) /\ twin.diff[1] = HunkHeader(12, 1, 3, 1)
  /\ twin.fixedDiff = fixedDiff
  /\ \E i \in DOMAIN fixedDiff :
       /\ HunkHeaderMatch(fixedDiff[i]) # NoMatch
       /\ HunkHeaderMatch(fixedDiff[i]).oldStart = 1

\* ------------------------------------------------------------------------
\* A hunk that reproduces the whole file (SpecRegen)
\* ------------------------------------------------------------------------

\* the largest number of lines of the original
MaxFileLines == 6

\* line k of the original: "l1", "l2", ...
FileLine(k) == <<"l">> \o NumToString(k)

FileOfLines(n) == [k \in 1..n |-> FileLine(k)]

\* originals of MaxFileLines - 1 and MaxFileLines lines, without and with a
\* final newline
RegenOriginals ==
  {FileOfLines(n) \o end : n \in (MaxFileLines - 1)..MaxFileLines,
                           end \in {<<>>, << <<>> >>}}

\* the number of lines of a text, its final newline aside
LineCount(text) == IF EndsWithNewline(text) THEN Len(text) - 1 ELSE Len(text)

\* one hunk that reproduces the n lines of the file as context lines, except
\* line c, which it removes and, when replace holds, replaces by "X"
ReproducingDiff(header, n, c, replace) ==
  <<header>>
    \o [k \in 1..(c - 1) |-> <<" ">> \o FileLine(k)]
    \o << <<"-">> \o FileLine(c) >>
    \o (IF replace THEN << <<"+", "X">> >> ELSE <<>>)
    \o [k \in 1..(n - c) |-> <<" ">> \o FileLine(c + k)]

\* the file after that change
ChangedFile(text, c, replace) ==
  SubSeq(text, 1, c - 1) \o (IF replace THEN << <<"X">> >> ELSE <<>>)
    \o SubSeq(text, c + 1, Len(text))

\* the line that the reproducing diff changes
ChangedLine(d) == (CHOOSE i \in DOMAIN d : d[i][1] = "-") - 1

Replaces(d) == \E i \in DOMAIN d : d[i] = <<"+", "X">>

\* applyPatchWithFallback(originalContent, diff, filePath?) with such a diff,
\* its header declaring wrong counts, at line 1 or at line 3
InitRegen ==
  /\ pc = "s1"
  /\ originalContent \in RegenOriginals
  /\ \E header \in {HeaderWrongCounts, HunkHeader(3, 9, 3, 9)} :
       \E c \in 1..LineCount(originalContent) :
         \E replace \in BOOLEAN :
           diff = ReproducingDiff(header, LineCount(originalContent), c, replace)
  /\ fixedDiff = NoText /\ fullFile = FALSE
  /\ filePath \in {NoText, AbsPath(<<"a">>)}
  /\ tmp = NoTmp /\ result = NoText /\ patchResult = NoResult
  /\ attempts = <<>> /\ subprocess = FALSE
  /\ IdleBatch
  /\ IdleOther

SpecRegen == InitRegen /\ [][ApplyNext]_vars

\* what applyPatch makes of the diff is known
KnownApply(content, d) == ApplyPatch(content, d) # ApplyPatchOutcomes

\* C22: when the diff is one hunk that reproduces (as context and removal
\* lines) the original file with some lines changed, normalizeDiff replaces
\* it by regenerated localized hunks, and applying the normalized diff to
\* originalContent succeeds and yields exactly the new-side text of the input
\* diff, also when the original ends with a newline and when the hunk does
\* not start at line 1.
C22_RegeneratedDiffApplies ==
  \A k \in DOMAIN attempts :
    (/\ attempts[k].strategy = 2 /\ attempts[k].outcome # "running"
     /\ IsFullFileDiff(diff, originalContent)
     /\ KnownApply(originalContent, fixedDiff)) =>
      /\ attempts[k].outcome = "ok"
      /\ attempts[k].content = ChangedFile(originalContent, ChangedLine(diff), Replaces(diff))

====
